---------------------------- MODULE Spec2Model ----------------------------
(***************************************************************************)
(* Build, packaging and validation scripts of gytmdl-gui as state machines. *)
(*                                                                         *)
(* Every script is a sequential orchestrator: it starts an external        *)
(* command, waits for it, looks at the exit code and at the files on disk, *)
(* and goes on or stops.  The external commands and the file system are    *)
(* the environment: each action draws the outcome of the commands it runs  *)
(* from Outcomes and the files a tool leaves behind from small sets.       *)
(*                                                                         *)
(*   SpecSB  build-scripts/build-sidecars.py started from the command line *)
(*   SpecPP  scripts/build-and-package.py (PackagingPipeline)              *)
(*   SpecPB  scripts/build-production-bundle.py (ProductionBundleBuilder)  *)
(*   SpecMS  scripts/create-mock-sidecars.py                               *)
(*   SpecCK  PackagingPipeline.generate_checksums on its own               *)
(*   SpecSS  scripts/build-simple-sidecar.py and CompleteTester's build    *)
(*   SpecVR  scripts/validate-release-pipeline.py                          *)
(*   SpecMW  SidecarBuilder.calculate_checksum and create_manifest re-run  *)
(*   SpecEntry  the four entry points that turn a result into an exit code *)
(*                                                                         *)
(* PackagingPipeline and ProductionBundleBuilder start build-sidecars.py   *)
(* as a child process; the child is the SidecarBuilder machine below.      *)
(***************************************************************************)
EXTENDS Naturals, Sequences, FiniteSets, TLC

VARIABLES
    host,         \* platform.system(), platform.machine(), digits of sys.maxsize
    config,       \* the build configuration (load_config)
    fs,           \* the files on disk: path -> content
    log,          \* the external commands started so far, in order, each with its outcome
    sb_pc,        \* SidecarBuilder.build: the step about to run
    sb_trace,     \* SidecarBuilder.build: the steps started so far, each with what it returned
    sb_result,    \* SidecarBuilder.build: "none", "true", "false", "raised"
    sb_binary,    \* SidecarBuilder.build: what build_binary returned
    sb_found,     \* SidecarBuilder.build_binary: the names found in dist when the tool had exited
    pp_pc,        \* PackagingPipeline.run_full_pipeline: the stage about to run
    pp_calls,     \* PackagingPipeline: the stages started so far
    pp_result,    \* PackagingPipeline: "none", "true", "false", "raised"
    pp_failed,    \* PackagingPipeline: the step named in "Pipeline failed at step"
    pp_missing,   \* PackagingPipeline.check_dependencies: missing_tools
    pp_installers,\* PackagingPipeline: the installers create_installers returned
    pp_checksums, \* PackagingPipeline.generate_checksums: checksums.txt
    pb_pc,        \* ProductionBundleBuilder.run_full_build: the stage about to run
    pb_calls,     \* ProductionBundleBuilder: the stages started so far
    pb_result,    \* ProductionBundleBuilder: "none", "true", "false", "raised"
    pb_failed,    \* ProductionBundleBuilder: the step named in "Build failed at step"
    pb_missing,   \* ProductionBundleBuilder.check_dependencies: missing_tools
    pb_writes,    \* ProductionBundleBuilder: the files written by the mock step, in order
    pb_installers,\* ProductionBundleBuilder: the installers create_installers returned
    pb_report,    \* ProductionBundleBuilder.generate_build_report: build-report.json
    ms_pc,        \* create-mock-sidecars.py: the index of the platform the loop is at
                  \* (0: not started; past the last index: returned)
    ms_writes,    \* create-mock-sidecars.py: the files written so far, in order
    ms_result,    \* create-mock-sidecars.py: what create_mock_sidecars returned
    ss_variant,   \* the simple build: build-simple-sidecar.py or CompleteTester
    ss_pc,        \* the simple build: the step about to run
    ss_trace,     \* the simple build: the steps run so far, each with what it returned
    ss_result,    \* the simple build: what main / build_sidecar_simple returned
    vr_pc,        \* ReleasePipelineValidator.run_validation: the check about to run
    vr_trace,     \* ReleasePipelineValidator: the checks run so far, each with its result
    vr_all_passed,\* ReleasePipelineValidator.run_validation: all_passed
    vr_result,    \* ReleasePipelineValidator: what run_validation returned
    vr_env,       \* ReleasePipelineValidator: the project under project_root
    vr_results,   \* ReleasePipelineValidator.validation_results
    mw_pc,        \* the manifest writer: "idle", "ready", "raised", "blocked"
    mw_bytes,     \* the manifest writer: the bytes of the binary
    mw_manifest,  \* the manifest writer: the manifest file beside the binary
    mw_written,   \* the manifest writer: each run's binary bytes and manifest, in order
    tests_pc,     \* a test script: the test about to run, "idle", "cleanup", "report", "done"
    tests_env,    \* a test script: what it finds on the machine, and its options
    tests_trace,  \* a test script: the tests run so far, each with its result
    test_results, \* IsolationTester.test_results, PackagingTestRunner.test_results
    failed_tests, \* PackagingTestRunner.failed_tests
    all_passed,   \* IsolationTester.run_all_tests: all_passed
    system_gytmdl_available, \* IsolationTester.system_gytmdl_available
    tests_result, \* a test script: what its top-level function returned
    script,       \* the script started from the command line
    exit_code     \* the exit code of the process: "running", "0", "1"

sbVars == <<sb_pc, sb_trace, sb_result, sb_binary, sb_found>>
ppVars == <<pp_pc, pp_calls, pp_result, pp_failed, pp_missing, pp_installers, pp_checksums>>
pbVars == <<pb_pc, pb_calls, pb_result, pb_failed, pb_missing, pb_writes,
           pb_installers, pb_report>>
msVars == <<ms_pc, ms_writes, ms_result>>
ssVars == <<ss_variant, ss_pc, ss_trace, ss_result>>
vrVars == <<vr_pc, vr_env, vr_trace, vr_results, vr_all_passed, vr_result>>
mwVars == <<mw_pc, mw_bytes, mw_manifest, mw_written>>
testVars == <<tests_pc, tests_env, tests_trace, test_results, failed_tests, all_passed,
             system_gytmdl_available, tests_result>>
toolVars == <<msVars, ssVars, vrVars, mwVars, testVars, exit_code>>
envVars == <<host, config, script>>
vars == <<host, config, fs, log, sbVars, ppVars, pbVars, toolVars>>

(***************************************************************************)
(* External commands.                                                      *)
(***************************************************************************)

\* What an external command can do: exit 0, exit non-zero, not exist on the
\* PATH, or never return.
Outcomes == {"ok", "nonzero", "notfound", "hang"}

\* A command started through sys.executable: the interpreter that runs the
\* script exists.
PythonOutcomes == {"ok", "nonzero", "hang"}

\* subprocess.run(cmd, check=check, timeout=...) for a command with the given
\* outcome: what the call does in the caller.
SubprocessRun(outcome, check, timeout) ==
    CASE outcome = "notfound" -> "FileNotFoundError"
      [] outcome = "hang"     -> IF timeout THEN "TimeoutExpired" ELSE "blocks"
      [] outcome = "nonzero"  -> IF check THEN "CalledProcessError" ELSE "returncode_nonzero"
      [] OTHER                -> "returncode_zero"

\* An entry of the log: the command and what it did.
Cmd(name, outcome) == [cmd |-> name, outcome |-> outcome]

(***************************************************************************)
(* Platform resolution.                                                    *)
(***************************************************************************)

\* str(sys.maxsize) on a 64-bit and on a 32-bit interpreter, digit by digit.
MaxSize64 == <<9,2,2,3,3,7,2,0,3,6,8,5,4,7,7,5,8,0,7>>
MaxSize32 == <<2,1,4,7,4,8,3,6,4,7>>

Hosts ==
    { [system |-> "windows", machine |-> "amd64",   maxsize |-> MaxSize64],
      [system |-> "windows", machine |-> "x86",     maxsize |-> MaxSize32],
      [system |-> "darwin",  machine |-> "arm64",   maxsize |-> MaxSize64],
      [system |-> "darwin",  machine |-> "x86_64",  maxsize |-> MaxSize64],
      [system |-> "linux",   machine |-> "x86_64",  maxsize |-> MaxSize64],
      [system |-> "linux",   machine |-> "aarch64", maxsize |-> MaxSize64],
      [system |-> "linux",   machine |-> "armv7l",  maxsize |-> MaxSize32],
      [system |-> "freebsd", machine |-> "amd64",   maxsize |-> MaxSize64] }

\* "64" in str(sys.maxsize)
Has64(digits) ==
    \E i \in 1..(Len(digits) - 1) : digits[i] = 6 /\ digits[i + 1] = 4

Unsupported == [os |-> "unsupported", arch |-> "", target |-> "", extension |-> ""]

\* SidecarBuilder.get_platform_info; Unsupported stands for the ValueError.
get_platform_info(h) ==
    CASE h.system = "windows" ->
           IF Has64(h.maxsize)
           THEN [os |-> "windows", arch |-> "x86_64",
                 target |-> "x86_64-pc-windows-msvc", extension |-> ".exe"]
           ELSE [os |-> "windows", arch |-> "i686",
                 target |-> "i686-pc-windows-msvc", extension |-> ".exe"]
      [] h.system = "darwin" ->
           IF h.machine = "arm64"
           THEN [os |-> "macos", arch |-> "aarch64",
                 target |-> "aarch64-apple-darwin", extension |-> ""]
           ELSE [os |-> "macos", arch |-> "x86_64",
                 target |-> "x86_64-apple-darwin", extension |-> ""]
      [] h.system = "linux" ->
           IF h.machine = "x86_64"
           THEN [os |-> "linux", arch |-> "x86_64",
                 target |-> "x86_64-unknown-linux-gnu", extension |-> ""]
           ELSE IF h.machine = "aarch64"
           THEN [os |-> "linux", arch |-> "aarch64",
                 target |-> "aarch64-unknown-linux-gnu", extension |-> ""]
           ELSE [os |-> "linux", arch |-> "unknown",
                 target |-> "unknown-linux-gnu", extension |-> ""]
      [] OTHER -> Unsupported

(***************************************************************************)
(* File names and the file system.                                         *)
(*                                                                         *)
(* A file name is the sequence of its dot-separated parts, so that         *)
(* Path.with_suffix and f"{name}.json" are different operations.  A path   *)
(* is a directory and a name.                                              *)
(***************************************************************************)

SidecarsDir == "src-tauri/sidecars"
SidecarDistDir == "src-tauri/sidecars/dist"
DistDir == "dist"

\* A binary name without the target triple.
BinaryName_without_target(target, extension) ==
    IF extension = ".exe" THEN <<"gytmdl", "exe">> ELSE <<"gytmdl">>

\* f"gytmdl-{target}{extension}" with extension "" or ".exe"
BinaryName(target, extension) ==
    IF extension = ".exe" THEN <<"gytmdl-" \o target, "exe">>
    ELSE <<"gytmdl-" \o target>>

\* f"gytmdl{extension}"
SimpleName(extension) ==
    IF extension = ".exe" THEN <<"gytmdl", "exe">> ELSE <<"gytmdl">>

\* pathlib's Path.with_suffix(".json"): the last suffix is replaced, or the
\* suffix is added to a name that has none.
WithSuffixJson(name) ==
    IF Len(name) > 1 THEN SubSeq(name, 1, Len(name) - 1) \o <<"json">>
    ELSE name \o <<"json">>

\* f"{name}.json"
AppendJson(name) == name \o <<"json">>

PathOf(dir, name) == [dir |-> dir, name |-> name]

Exists(f, p) == p \in DOMAIN f

WriteFile(f, p, c) == [q \in DOMAIN f \cup {p} |-> IF q = p THEN c ELSE f[q]]

RemoveFile(f, p) == [q \in DOMAIN f \ {p} |-> f[q]]

\* A rename that leaves the source in place (a copy).
RenameFile_keeps_source(f, from, to) == WriteFile(f, to, f[from])

\* Path.rename: the file is at the new path and no longer at the old one.
RenameFile(f, from, to) == WriteFile(RemoveFile(f, from), to, f[from])

\* File contents: a binary or a manifest, real or mock, of a target, with the
\* build that wrote it ("old": before this run; "new": this run).
Content(type, mock, target, build) ==
    [type |-> type, is_mock |-> mock, target |-> target, build |-> build]


\* The files an earlier run may have left behind: any subset of the current
\* platform's binary in the PyInstaller dist directory (under its canonical and
\* its unqualified name) and in the sidecars directory.
LeftoverPaths(h) ==
    LET info == get_platform_info(h) IN
    { PathOf(SidecarDistDir, BinaryName(info.target, info.extension)),
      PathOf(SidecarDistDir, SimpleName(info.extension)),
      PathOf(SidecarsDir, BinaryName(info.target, info.extension)) }

InitialFs(h) ==
    LET info == get_platform_info(h) IN
    { [p \in S |-> Content("binary", FALSE, info.target, "old")] :
        S \in SUBSET LeftoverPaths(h) }

(***************************************************************************)
(* build-scripts/build-sidecars.py: SidecarBuilder.                        *)
(*                                                                         *)
(* A step returns "true" or "false", raises ("raised": an exception leaves *)
(* the step), or never returns ("blocked": it waits on a command that never *)
(* exits and was started without a timeout).                               *)
(***************************************************************************)

NoPath == [dir |-> "", name |-> <<>>]

SBOrder ==
    <<"check_dependencies", "install_gytmdl_dependencies", "build_binary",
      "validate_binary", "create_manifest">>

\* SidecarBuilder.check_dependencies: the PyInstaller probe, then the source
\* directory, then the import of the module.
SidecarBuilder_check_dependencies(o, srcExists, importable) ==
    LET r == SubprocessRun(o, TRUE, FALSE) IN
    [ cmds   |-> <<Cmd("pyinstaller --version", o)>>,
      status |-> CASE r = "blocks"             -> "blocked"
                   [] r = "CalledProcessError" -> "false"
                   [] r = "FileNotFoundError"  -> "false"   \* except Exception
                   [] OTHER -> IF srcExists /\ importable THEN "true" ELSE "false" ]

\* SidecarBuilder.install_gytmdl_dependencies: only CalledProcessError is caught.
SidecarBuilder_install_gytmdl_dependencies(o, reqExists) ==
    LET r == SubprocessRun(o, TRUE, FALSE) IN
    [ cmds   |-> IF reqExists THEN <<Cmd("pip install -r requirements.txt", o)>>
                 ELSE <<Cmd("pip install -e gytmdl", o)>>,
      status |-> CASE r = "blocks"             -> "blocked"
                   [] r = "CalledProcessError" -> "false"
                   [] r = "FileNotFoundError"  -> "raised"
                   [] OTHER                    -> "true" ]

\* What PyInstaller leaves in the dist directory: it writes the files named in
\* produced ("canonical", "simple"), if it was started at all.
PyInstallerWrites(f, info, o, produced) ==
    LET canonical == PathOf(SidecarDistDir, BinaryName(info.target, info.extension))
        simple    == PathOf(SidecarDistDir, SimpleName(info.extension))
        new       == Content("binary", FALSE, info.target, "new")
        f1 == IF "canonical" \in produced THEN WriteFile(f, canonical, new) ELSE f
        f2 == IF "simple" \in produced THEN WriteFile(f1, simple, new) ELSE f1
    IN  IF o = "notfound" THEN f ELSE f2

\* A build_binary that does not look at the tool's exit code.
build_binary_tool_failed_ignored(r) == FALSE

\* SidecarBuilder.build_binary, "if result.returncode != 0": the tool failed.
build_binary_tool_failed(r) == r = "returncode_nonzero"

\* The names build_binary looks for that are in the dist directory.
FoundInDist(f, info) ==
    { n \in {"canonical", "simple"} :
        Exists(f, PathOf(SidecarDistDir,
                         IF n = "canonical" THEN BinaryName(info.target, info.extension)
                         ELSE SimpleName(info.extension))) }

\* SidecarBuilder.build_binary: path is the returned path, NoPath for None;
\* found is what was in the dist directory when the tool had exited.
SidecarBuilder_build_binary(h, f, o, produced, renameOk) ==
    LET info == get_platform_info(h)
        r    == SubprocessRun(o, FALSE, FALSE)
        f1   == PyInstallerWrites(f, info, o, produced)
        expected_binary == PathOf(SidecarDistDir, BinaryName(info.target, info.extension))
        simple_binary   == PathOf(SidecarDistDir, SimpleName(info.extension))
        cmd  == <<Cmd("pyinstaller --clean pyinstaller-config.spec", o)>>
        none == [status |-> "false", path |-> NoPath, fs |-> f1, cmds |-> cmd,
                 found |-> FoundInDist(f1, info)]
    IN  IF info = Unsupported
        THEN [status |-> "raised", path |-> NoPath, fs |-> f, cmds |-> <<>>,
              found |-> {}]
        ELSE CASE r = "blocks" -> [none EXCEPT !.status = "blocked"]
               [] r = "FileNotFoundError" -> none             \* except Exception
               [] build_binary_tool_failed(r) -> none
               [] OTHER ->
                    IF Exists(f1, expected_binary)
                    THEN [none EXCEPT !.status = "true", !.path = expected_binary]
                    ELSE IF Exists(f1, simple_binary)
                    THEN IF renameOk
                         THEN [none EXCEPT !.status = "true", !.path = expected_binary,
                                 !.fs = RenameFile(f1, simple_binary, expected_binary)]
                         ELSE none                            \* except Exception
                    ELSE none

\* The version probe started without a timeout.
validate_binary_run_no_timeout(o) == SubprocessRun(o, FALSE, FALSE)

\* SidecarBuilder.validate_binary: the version probe, under a 30 second timeout.
validate_binary_run(o) == SubprocessRun(o, FALSE, TRUE)

\* SidecarBuilder.validate_binary: run with --version under a 30 second timeout.
SidecarBuilder_validate_binary(o) ==
    LET r == validate_binary_run(o) IN
    [ cmds   |-> <<Cmd("gytmdl --version", o)>>,
      status |-> CASE r = "returncode_zero"    -> "true"
                   [] r = "returncode_nonzero" -> "false"
                   [] r = "TimeoutExpired"     -> "false"
                   [] r = "FileNotFoundError"  -> "false"   \* except Exception
                   [] OTHER                    -> "blocked" ]

\* SidecarBuilder.create_manifest: hashes the binary, asks date for the time
\* (not on Windows) and writes the manifest at binary_path.with_suffix(".json").
SidecarBuilder_create_manifest(h, f, binary_path, o) ==
    LET info == get_platform_info(h)
        r    == SubprocessRun(o, FALSE, FALSE)
        manifest_path == PathOf(binary_path.dir, WithSuffixJson(binary_path.name))
        manifest == Content("manifest", FALSE, info.target, f[binary_path].build)
        written  == [status |-> "true", fs |-> WriteFile(f, manifest_path, manifest),
                     cmds |-> IF h.system = "windows" THEN <<>> ELSE <<Cmd("date -u", o)>>]
    IN  IF h.system = "windows" THEN written
        ELSE CASE r = "blocks" ->
                    [status |-> "blocked", fs |-> f, cmds |-> <<Cmd("date -u", o)>>]
               [] r = "FileNotFoundError" ->
                    [status |-> "raised", fs |-> f, cmds |-> <<Cmd("date -u", o)>>]
               [] OTHER -> written

\* The step of SBOrder after step, "done" after the last one.
SBSuccessor(step) ==
    IF \E i \in 1..(Len(SBOrder) - 1) : SBOrder[i] = step
    THEN SBOrder[(CHOOSE i \in 1..(Len(SBOrder) - 1) : SBOrder[i] = step) + 1]
    ELSE "done"

\* A build that writes the manifest whatever validate_binary returned.
SidecarBuilder_build_ignores_validation(step, status) ==
    CASE status = "true" \/ (status = "false" /\ step = "validate_binary") ->
           [pc |-> SBSuccessor(step),
            result |-> IF SBSuccessor(step) = "done" THEN "true" ELSE "none"]
      [] status = "false"  -> [pc |-> "done", result |-> "false"]
      [] status = "raised" -> [pc |-> "done", result |-> "raised"]
      [] OTHER             -> [pc |-> "blocked", result |-> "none"]

\* SidecarBuilder.build: what follows a step that returned status.  A step that
\* returns false ends the build with False; the build goes on after a step that
\* returned true and returns True after the last one.
SidecarBuilder_build(step, status) ==
    CASE status = "true" ->
           [pc |-> SBSuccessor(step),
            result |-> IF SBSuccessor(step) = "done" THEN "true" ELSE "none"]
      [] status = "false"  -> [pc |-> "done", result |-> "false"]
      [] status = "raised" -> [pc |-> "done", result |-> "raised"]
      [] OTHER             -> [pc |-> "blocked", result |-> "none"]

SBStep(step, status, cmds) ==
    /\ sb_pc = step
    /\ sb_trace' = Append(sb_trace, [step |-> step, ret |-> status])
    /\ sb_pc' = SidecarBuilder_build(step, status).pc
    /\ sb_result' = SidecarBuilder_build(step, status).result
    /\ log' = log \o cmds
    /\ UNCHANGED <<envVars, toolVars, ppVars, pbVars>>

SB_check_dependencies ==
    \E o \in Outcomes, srcExists \in BOOLEAN, importable \in BOOLEAN :
        LET r == SidecarBuilder_check_dependencies(o, srcExists, importable) IN
        /\ SBStep("check_dependencies", r.status, r.cmds)
        /\ UNCHANGED <<fs, sb_binary, sb_found>>

SB_install_gytmdl_dependencies ==
    \E o \in PythonOutcomes, reqExists \in BOOLEAN :
        LET r == SidecarBuilder_install_gytmdl_dependencies(o, reqExists) IN
        /\ SBStep("install_gytmdl_dependencies", r.status, r.cmds)
        /\ UNCHANGED <<fs, sb_binary, sb_found>>

SB_build_binary ==
    \E o \in Outcomes, produced \in SUBSET {"canonical", "simple"}, renameOk \in BOOLEAN :
        LET r == SidecarBuilder_build_binary(host, fs, o, produced, renameOk) IN
        /\ SBStep("build_binary", r.status, r.cmds)
        /\ fs' = r.fs
        /\ sb_binary' = r.path
        /\ sb_found' = r.found

SB_validate_binary ==
    \E o \in Outcomes :
        LET r == SidecarBuilder_validate_binary(o) IN
        /\ SBStep("validate_binary", r.status, r.cmds)
        /\ UNCHANGED <<fs, sb_binary, sb_found>>

SB_create_manifest ==
    \E o \in Outcomes :
        LET r == SidecarBuilder_create_manifest(host, fs, sb_binary, o) IN
        /\ SBStep("create_manifest", r.status, r.cmds)
        /\ fs' = r.fs
        /\ UNCHANGED <<sb_binary, sb_found>>

\* load_config when the configuration file does not exist.
DefaultConfig ==
    [signing |-> "disabled", fields |-> FALSE, notarize |-> FALSE, notary_fields |-> FALSE]

\* The configurations: code_signing absent, or present with enabled false or
\* true; with signing enabled, the certificate or identity fields, the notarize
\* flag and the notarization fields are each there or not.
Configs ==
    { [signing |-> "absent", fields |-> FALSE, notarize |-> FALSE, notary_fields |-> FALSE],
      DefaultConfig }
    \cup { [signing |-> "enabled", fields |-> f, notarize |-> n, notary_fields |-> k] :
             f \in BOOLEAN, n \in BOOLEAN, k \in BOOLEAN }

\* build-report.json before generate_build_report has written it.
NoReport == [written |-> FALSE, sidecar_binaries |-> {}, checksums |-> <<>>]

\* checksums.txt before generate_checksums has written it.
NoChecksums == [written |-> FALSE, lines |-> <<>>]

PPIdle ==
    /\ pp_pc = "idle" /\ pp_calls = <<>> /\ pp_result = "none" /\ pp_failed = "none"
    /\ pp_missing = <<>>
    /\ pp_installers = <<>>
    /\ pp_checksums = NoChecksums

PBIdle ==
    /\ pb_pc = "idle" /\ pb_calls = <<>> /\ pb_result = "none" /\ pb_failed = "none"
    /\ pb_missing = <<>> /\ pb_writes = <<>> /\ pb_installers = <<>>
    /\ pb_report = NoReport

MSIdle == ms_pc = 0 /\ ms_writes = <<>> /\ ms_result = "none"

SSIdle ==
    /\ ss_variant = "none" /\ ss_pc = "idle" /\ ss_trace = <<>> /\ ss_result = "none"

VRIdle ==
    /\ vr_pc = "idle" /\ vr_trace = <<>> /\ vr_all_passed = TRUE /\ vr_result = "none"
    /\ vr_env = <<>> /\ vr_results = <<>>

MWIdle ==
    /\ mw_pc = "idle" /\ mw_bytes = <<>> /\ mw_manifest = <<>> /\ mw_written = <<>>

TestsIdle ==
    /\ tests_pc = "idle" /\ tests_env = <<>> /\ tests_trace = <<>> /\ test_results = <<>>
    /\ failed_tests = <<>> /\ all_passed = TRUE /\ system_gytmdl_available = FALSE
    /\ tests_result = "none"

\* The standalone scripts that are not running.
ToolsIdle == MSIdle /\ SSIdle /\ VRIdle /\ MWIdle /\ TestsIdle /\ exit_code = "running"

\* An exit code that is always 0.
ExitCode_always_zero(result) == "0"

\* sys.exit(0 if success else 1) in the main functions; an exception that
\* leaves main ends the interpreter with exit code 1.
ExitCode(result) == IF result = "true" THEN "0" ELSE "1"

\* The end of a main function whose top-level run returned result.
MainExit(result) ==
    /\ exit_code = "running"
    /\ exit_code' = ExitCode(result)
    /\ UNCHANGED <<envVars, fs, log, sbVars, ppVars, pbVars, msVars, ssVars, mwVars, testVars>>

SBInit(pc) ==
    /\ sb_pc = pc /\ sb_trace = <<>> /\ sb_result = "none" /\ sb_binary = NoPath
    /\ sb_found = {}

\* build-sidecars.py started from the command line.
InitSB ==
    /\ host \in Hosts
    /\ config = DefaultConfig
    /\ fs \in InitialFs(host)
    /\ log = <<>>
    /\ script = "build-sidecars"
    /\ SBInit("check_dependencies")
    /\ PPIdle
    /\ PBIdle
    /\ ToolsIdle

\* build-sidecars.py, main: sys.exit(0 if success else 1).
SB_main_exit ==
    /\ script = "build-sidecars"
    /\ sb_pc = "done"
    /\ MainExit(sb_result)
    /\ UNCHANGED vrVars

NextSB ==
    \/ SB_check_dependencies
    \/ SB_install_gytmdl_dependencies
    \/ SB_build_binary
    \/ SB_validate_binary
    \/ SB_create_manifest
    \/ SB_main_exit

SpecSB == InitSB /\ [][NextSB]_vars


(***************************************************************************)
(* scripts/build-and-package.py: PackagingPipeline.                        *)
(*                                                                         *)
(* A stage returns "true" or "false", raises or blocks, like a step of     *)
(* SidecarBuilder.  create_installers returns a list: "true" stands for a  *)
(* non-empty one, "empty" for an empty one.                                *)
(***************************************************************************)

\* PackagingPipeline._get_platform_info; Unsupported stands for the BuildError.
PackagingPipeline_get_platform_info(h) ==
    CASE h.system = "windows" ->
           [os |-> "windows",
            arch |-> IF Has64(h.maxsize) THEN "x86_64" ELSE "i686",
            target |-> IF Has64(h.maxsize) THEN "x86_64-pc-windows-msvc"
                       ELSE "i686-pc-windows-msvc",
            extension |-> ".exe",
            installer_formats |-> <<"msi", "nsis">>]
      [] h.system = "darwin" ->
           [os |-> "macos",
            arch |-> IF h.machine = "arm64" THEN "aarch64" ELSE "x86_64",
            target |-> IF h.machine = "arm64" THEN "aarch64-apple-darwin"
                       ELSE "x86_64-apple-darwin",
            extension |-> "",
            installer_formats |-> <<"dmg", "app">>]
      [] h.system = "linux" ->
           [os |-> "linux",
            arch |-> IF h.machine = "x86_64" THEN "x86_64"
                     ELSE IF h.machine = "aarch64" THEN "aarch64" ELSE "unknown",
            target |-> h.machine \o "-unknown-linux-gnu",
            extension |-> "",
            installer_formats |-> <<"deb", "rpm", "appimage">>]
      [] OTHER ->
           [os |-> "unsupported", arch |-> "", target |-> "", extension |-> "",
            installer_formats |-> <<>>]

\* The hosts on which PackagingPipeline.__init__ returns.
PPHosts == { h \in Hosts : PackagingPipeline_get_platform_info(h).os # "unsupported" }

\* A tool that an earlier probe found: it exits 0, exits non-zero or hangs.
FoundOutcomes == {"ok", "nonzero", "hang"}

\* required_tools, in the order of the dictionary.
RequiredTools == <<"node", "npm", "cargo", "python3">>

\* check_dependencies, "except (CalledProcessError, FileNotFoundError)": the
\* probe's tool goes to missing_tools.
probe_is_missing(r) == r \in {"CalledProcessError", "FileNotFoundError"}

\* The command that probes a tool: PyInstaller is probed as a module of the
\* running interpreter.
ProbeCmd(t) ==
    IF t = "pyinstaller" THEN "python -m PyInstaller --version" ELSE t \o " --version"

\* check_dependencies, the loop over required_tools: the probes started, the
\* missing list, and whether a probe never returned.
RECURSIVE probe_tools(_, _)
probe_tools(tools, outcomeOf) ==
    IF tools = <<>> THEN [cmds |-> <<>>, missing |-> <<>>, blocked |-> FALSE]
    ELSE LET t == Head(tools)
             r == SubprocessRun(outcomeOf[t], TRUE, FALSE)
             c == <<Cmd(ProbeCmd(t), outcomeOf[t])>>
         IN  IF r = "blocks"
             THEN [cmds |-> c, missing |-> <<>>, blocked |-> TRUE]
             ELSE LET rest == probe_tools(Tail(tools), outcomeOf) IN
                  [cmds    |-> c \o rest.cmds,
                   missing |-> (IF probe_is_missing(r) THEN <<t>> ELSE <<>>) \o rest.missing,
                   blocked |-> rest.blocked]

\* The signing tool check_dependencies probes on this host, "" for none.
SigningProbe(cfg, os) ==
    IF cfg.signing # "enabled" THEN ""
    ELSE IF os = "windows" THEN "signtool"
    ELSE IF os = "macos" THEN "codesign --version"
    ELSE ""

\* PackagingPipeline.check_dependencies.
PackagingPipeline_check_dependencies(h, cfg, outcomeOf, oSign) ==
    LET info   == PackagingPipeline_get_platform_info(h)
        probes == probe_tools(RequiredTools, outcomeOf)
        sign   == SigningProbe(cfg, info.os)
        rs     == SubprocessRun(oSign, TRUE, FALSE)
    IN  IF probes.blocked
        THEN [status |-> "blocked", cmds |-> probes.cmds, missing |-> probes.missing]
        ELSE IF sign # "" /\ rs = "blocks"
        THEN [status |-> "blocked", cmds |-> probes.cmds \o <<Cmd(sign, oSign)>>,
              missing |-> probes.missing]
        ELSE [status  |-> IF probes.missing # <<>> THEN "false" ELSE "true",
              cmds    |-> probes.cmds \o (IF sign # "" THEN <<Cmd(sign, oSign)>> ELSE <<>>),
              missing |-> probes.missing]

\* PackagingPipeline.build_frontend: npm install, then npm run build; only
\* CalledProcessError is caught.
RunChecked(r) ==
    CASE r = "blocks"             -> "blocked"
      [] r = "CalledProcessError" -> "false"
      [] r = "FileNotFoundError"  -> "raised"
      [] OTHER                    -> "true"

PackagingPipeline_build_frontend(o1, o2) ==
    LET s1 == RunChecked(SubprocessRun(o1, TRUE, FALSE))
        s2 == RunChecked(SubprocessRun(o2, TRUE, FALSE))
    IN  IF s1 # "true"
        THEN [status |-> s1, cmds |-> <<Cmd("npm install", o1)>>]
        ELSE [status |-> s2, cmds |-> <<Cmd("npm install", o1), Cmd("npm run build", o2)>>]

\* PackagingPipeline.build_tauri_app: the exit code is read, every exception is
\* caught.
PackagingPipeline_build_tauri_app(o) ==
    LET r == SubprocessRun(o, FALSE, FALSE) IN
    [ cmds   |-> <<Cmd("cargo tauri build", o)>>,
      status |-> CASE r = "blocks"          -> "blocked"
                   [] r = "returncode_zero" -> "true"
                   [] OTHER                 -> "false" ]

\* PackagingPipeline._sign_windows_binaries: config["certificate_path"] raises
\* KeyError when the field is missing; only CalledProcessError is caught.
PackagingPipeline_sign_windows_binaries(cfg, exeExists, o) ==
    IF ~exeExists THEN [status |-> "false", cmds |-> <<>>]
    ELSE IF ~cfg.fields THEN [status |-> "raised", cmds |-> <<>>]
    ELSE [status |-> RunChecked(SubprocessRun(o, TRUE, FALSE)),
          cmds |-> <<Cmd("signtool sign", o)>>]

\* A notarization that staples whatever the submission did.
PackagingPipeline_notarize_macos_app_always_staples(cfg, oZip, oSubmit, oStaple) ==
    [status |-> RunChecked(SubprocessRun(oStaple, TRUE, FALSE)),
     cmds |-> <<Cmd("ditto -c -k", oZip), Cmd("xcrun notarytool submit", oSubmit),
                Cmd("xcrun stapler staple", oStaple)>>]

\* PackagingPipeline._notarize_macos_app: ditto, notarytool submit, stapler
\* staple, each with check=True; config["apple_id"] is read after the zip.
PackagingPipeline_notarize_macos_app(cfg, oZip, oSubmit, oStaple) ==
    LET s1 == RunChecked(SubprocessRun(oZip, TRUE, FALSE))
        s2 == RunChecked(SubprocessRun(oSubmit, TRUE, FALSE))
        s3 == RunChecked(SubprocessRun(oStaple, TRUE, FALSE))
        c1 == <<Cmd("ditto -c -k", oZip)>>
        c2 == c1 \o <<Cmd("xcrun notarytool submit", oSubmit)>>
        c3 == c2 \o <<Cmd("xcrun stapler staple", oStaple)>>
    IN  IF s1 # "true" THEN [status |-> s1, cmds |-> c1]
        ELSE IF ~cfg.notary_fields THEN [status |-> "raised", cmds |-> c1]
        ELSE IF s2 # "true" THEN [status |-> s2, cmds |-> c2]
        ELSE [status |-> s3, cmds |-> c3]

\* PackagingPipeline._sign_macos_binaries.
PackagingPipeline_sign_macos_binaries(cfg, appExists, o, oZip, oSubmit, oStaple) ==
    LET s == RunChecked(SubprocessRun(o, TRUE, FALSE))
        c == <<Cmd("codesign --sign", o)>>
        n == PackagingPipeline_notarize_macos_app(cfg, oZip, oSubmit, oStaple)
    IN  IF ~appExists THEN [status |-> "false", cmds |-> <<>>]
        ELSE IF ~cfg.fields THEN [status |-> "raised", cmds |-> <<>>]
        ELSE IF s # "true" THEN [status |-> s, cmds |-> c]
        ELSE IF cfg.notarize THEN [status |-> n.status, cmds |-> c \o n.cmds]
        ELSE [status |-> "true", cmds |-> c]

\* A sign_binaries that does not look at code_signing.enabled.
PackagingPipeline_sign_binaries_ignores_enabled(h, cfg, builtExists, o, oZip, oSubmit, oStaple) ==
    LET os == PackagingPipeline_get_platform_info(h).os IN
    IF os = "windows"
    THEN PackagingPipeline_sign_windows_binaries([cfg EXCEPT !.fields = TRUE], builtExists, o)
    ELSE IF os = "macos"
    THEN PackagingPipeline_sign_macos_binaries([cfg EXCEPT !.fields = TRUE], builtExists,
                                               o, oZip, oSubmit, oStaple)
    ELSE [status |-> "true", cmds |-> <<>>]

\* PackagingPipeline.sign_binaries.
PackagingPipeline_sign_binaries(h, cfg, builtExists, o, oZip, oSubmit, oStaple) ==
    LET os == PackagingPipeline_get_platform_info(h).os IN
    IF cfg.signing # "enabled" THEN [status |-> "true", cmds |-> <<>>]
    ELSE IF os = "windows"
    THEN PackagingPipeline_sign_windows_binaries(cfg, builtExists, o)
    ELSE IF os = "macos"
    THEN PackagingPipeline_sign_macos_binaries(cfg, builtExists, o, oZip, oSubmit, oStaple)
    ELSE [status |-> "true", cmds |-> <<>>]

\* The name of the installer copied to the dist directory for a format.
InstallerName(target, format) ==
    CASE format = "msi"      -> <<"gytmdl-gui-" \o target, "msi">>
      [] format = "nsis"     -> <<"gytmdl-gui-" \o target \o "-setup", "exe">>
      [] format = "dmg"      -> <<"gytmdl-gui-" \o target, "dmg">>
      [] format = "deb"      -> <<"gytmdl-gui-" \o target, "deb">>
      [] format = "rpm"      -> <<"gytmdl-gui-" \o target, "rpm">>
      [] OTHER               -> <<"gytmdl-gui-" \o target, "AppImage">>

\* The formats _create_installer has a branch for ("app" has none).
SupportedFormats == {"msi", "nsis", "dmg", "deb", "rpm", "appimage"}

\* PackagingPipeline.create_installers: for each format of the platform whose
\* bundle the Tauri build left (bundled), the installer is copied to the dist
\* directory and its path joins the list.
RECURSIVE create_installers_loop(_, _, _, _)
create_installers_loop(formats, bundled, target, f) ==
    IF formats = <<>> THEN [installers |-> <<>>, fs |-> f]
    ELSE LET format == Head(formats)
             dest   == PathOf(DistDir, InstallerName(target, format))
             copied == format \in SupportedFormats /\ format \in bundled
             f1     == IF copied
                       THEN WriteFile(f, dest, Content("installer", FALSE, format, "new"))
                       ELSE f
             rest   == create_installers_loop(Tail(formats), bundled, target, f1)
         IN  [installers |-> (IF copied THEN <<dest>> ELSE <<>>) \o rest.installers,
              fs |-> rest.fs]

\* An installer stage that fails the run when no installer was found.
PackagingPipeline_create_installers_requires_one(h, f, bundled) ==
    LET info == PackagingPipeline_get_platform_info(h)
        r    == create_installers_loop(info.installer_formats, bundled, info.target, f)
    IN  [status |-> IF r.installers = <<>> THEN "false" ELSE "true",
         installers |-> r.installers, fs |-> r.fs]

PackagingPipeline_create_installers(h, f, bundled) ==
    LET info == PackagingPipeline_get_platform_info(h)
        r    == create_installers_loop(info.installer_formats, bundled, info.target, f)
    IN  [status |-> IF r.installers = <<>> THEN "empty" ELSE "true",
         installers |-> r.installers, fs |-> r.fs]

\* hashlib.sha256 of a file's contents: the digest stands for the contents.
Sha256(content) == [sha256_of |-> content]

\* A checksum loop without the exists() test: a line for every file of the list.
checksum_lines_for_every_file(files, f) ==
    [k \in 1..Len(files) |->
        [checksum |-> IF Exists(f, files[k]) THEN Sha256(f[files[k]]) ELSE Sha256(Content("installer", FALSE, "", "missing")),
         name |-> files[k].name]]

\* PackagingPipeline.generate_checksums: one line per file of the list that
\* exists, in the order of the list.
RECURSIVE checksum_lines(_, _)
checksum_lines(files, f) ==
    IF files = <<>> THEN <<>>
    ELSE (IF Exists(f, Head(files))
          THEN <<[checksum |-> Sha256(f[Head(files)]), name |-> Head(files).name]>>
          ELSE <<>>) \o checksum_lines(Tail(files), f)

PackagingPipeline_generate_checksums(files, f) ==
    [written |-> TRUE, lines |-> checksum_lines(files, f)]

\* A steps list with signing before the Tauri build.
PPOrder_sign_before_app ==
    <<"Check dependencies", "Build sidecar binaries", "Build frontend",
      "Sign binaries", "Build Tauri app", "Create installers", "Generate checksums">>

\* The stages of run_full_pipeline: the steps list, then installer creation
\* and checksum generation.
PPOrder ==
    <<"Check dependencies", "Build sidecar binaries", "Build frontend",
      "Build Tauri app", "Sign binaries", "Create installers", "Generate checksums">>

PPSuccessor(step) ==
    IF \E i \in 1..(Len(PPOrder) - 1) : PPOrder[i] = step
    THEN PPOrder[(CHOOSE i \in 1..(Len(PPOrder) - 1) : PPOrder[i] = step) + 1]
    ELSE "done"

\* A run_full_pipeline that goes on after a failed frontend build.
PackagingPipeline_run_full_pipeline_goes_on(step, status) ==
    CASE status = "true" \/ (status = "false" /\ step = "Build frontend") ->
           [pc |-> PPSuccessor(step),
            result |-> IF PPSuccessor(step) = "done" THEN "true" ELSE "none",
            failed |-> "none"]
      [] status = "empty"  -> [pc |-> "done", result |-> "true", failed |-> "none"]
      [] status = "false"  -> [pc |-> "done", result |-> "false", failed |-> step]
      [] status = "raised" -> [pc |-> "done", result |-> "raised", failed |-> "none"]
      [] OTHER             -> [pc |-> "blocked", result |-> "none", failed |-> "none"]

\* PackagingPipeline.run_full_pipeline: what follows a stage that returned
\* status.  A step of the steps list that returns false ends the run with
\* False and names the step; an empty installer list skips the checksums.
PackagingPipeline_run_full_pipeline(step, status) ==
    CASE status = "true" ->
           [pc |-> PPSuccessor(step),
            result |-> IF PPSuccessor(step) = "done" THEN "true" ELSE "none",
            failed |-> "none"]
      [] status = "empty"  -> [pc |-> "done", result |-> "true", failed |-> "none"]
      [] status = "false"  -> [pc |-> "done", result |-> "false", failed |-> step]
      [] status = "raised" -> [pc |-> "done", result |-> "raised", failed |-> "none"]
      [] OTHER             -> [pc |-> "blocked", result |-> "none", failed |-> "none"]

PPStage(step, status, cmds) ==
    /\ pp_pc = step
    /\ pp_calls' = Append(pp_calls, [step |-> step, ret |-> status])
    /\ pp_pc' = PackagingPipeline_run_full_pipeline(step, status).pc
    /\ pp_result' = PackagingPipeline_run_full_pipeline(step, status).result
    /\ pp_failed' = PackagingPipeline_run_full_pipeline(step, status).failed
    /\ log' = log \o cmds
    /\ UNCHANGED <<envVars, toolVars, pbVars>>

PP_check_dependencies ==
    \E outcomeOf \in [{"node", "npm", "cargo", "python3"} -> Outcomes], oSign \in Outcomes :
        LET r == PackagingPipeline_check_dependencies(host, config, outcomeOf, oSign) IN
        /\ PPStage("Check dependencies", r.status, r.cmds)
        /\ pp_missing' = r.missing
        /\ UNCHANGED <<fs, sbVars, pp_installers, pp_checksums>>

\* build_sidecar_binaries up to subprocess.run: without the build script the
\* stage returns False, with it build-sidecars.py is started.
PP_build_sidecar_binaries ==
    \E scriptExists \in BOOLEAN :
        /\ pp_pc = "Build sidecar binaries"
        /\ IF scriptExists
           THEN /\ pp_pc' = "Build sidecar binaries (waiting)"
                /\ sb_pc' = "check_dependencies"
                /\ log' = Append(log, Cmd("python build-sidecars.py", "child"))
                /\ UNCHANGED <<pp_calls, pp_result, pp_failed,
                               sb_trace, sb_result, sb_binary, sb_found>>
           ELSE /\ PPStage("Build sidecar binaries", "false", <<>>)
                /\ UNCHANGED sbVars
        /\ UNCHANGED <<envVars, toolVars, pbVars, fs, pp_missing, pp_installers, pp_checksums>>

\* The exit of build-sidecars.py as its parent sees it: 0 after build returned
\* True, 1 after False or an exception; a child that never exits blocks a
\* parent that set no timeout.
ChildStatus(pc, result) ==
    IF pc = "blocked" THEN "blocked"
    ELSE IF result = "true" THEN "true" ELSE "false"

\* build_sidecar_binaries from the return of subprocess.run.
PP_build_sidecar_binaries_exit ==
    /\ pp_pc = "Build sidecar binaries (waiting)"
    /\ sb_pc \in {"done", "blocked"}
    /\ LET status == ChildStatus(sb_pc, sb_result)
           next   == PackagingPipeline_run_full_pipeline("Build sidecar binaries", status)
       IN  /\ pp_calls' = Append(pp_calls, [step |-> "Build sidecar binaries", ret |-> status])
           /\ pp_pc' = next.pc
           /\ pp_result' = next.result
           /\ pp_failed' = next.failed
    /\ UNCHANGED <<envVars, toolVars, pbVars, sbVars, fs, log, pp_missing, pp_installers, pp_checksums>>

PP_build_frontend ==
    \E o1 \in FoundOutcomes, o2 \in FoundOutcomes :
        LET r == PackagingPipeline_build_frontend(o1, o2) IN
        /\ PPStage("Build frontend", r.status, r.cmds)
        /\ UNCHANGED <<fs, sbVars, pp_missing, pp_installers, pp_checksums>>

PP_build_tauri_app ==
    \E o \in FoundOutcomes :
        LET r == PackagingPipeline_build_tauri_app(o) IN
        /\ PPStage("Build Tauri app", r.status, r.cmds)
        /\ UNCHANGED <<fs, sbVars, pp_missing, pp_installers, pp_checksums>>

\* What the signing tool can do in sign_binaries: a tool the dependency check
\* did not find is still not there.
SigningOutcomes ==
    IF \E k \in DOMAIN log :
          log[k].cmd \in {"signtool", "codesign --version"} /\ log[k].outcome = "notfound"
    THEN {"notfound"} ELSE FoundOutcomes

\* What ditto, notarytool and stapler can do; they are started only on macOS
\* with signing and notarization configured.
NotaryOutcomes ==
    IF /\ config.signing = "enabled" /\ config.notarize
       /\ PackagingPipeline_get_platform_info(host).os = "macos"
    THEN Outcomes ELSE {"ok"}

PP_sign_binaries ==
    \E builtExists \in BOOLEAN, o \in SigningOutcomes,
       oZip \in NotaryOutcomes, oSubmit \in NotaryOutcomes, oStaple \in NotaryOutcomes :
        LET r == PackagingPipeline_sign_binaries(host, config, builtExists,
                                                 o, oZip, oSubmit, oStaple) IN
        /\ PPStage("Sign binaries", r.status, r.cmds)
        /\ UNCHANGED <<fs, sbVars, pp_missing, pp_installers, pp_checksums>>

PP_create_installers ==
    \E bundled \in SUBSET SupportedFormats :
        LET r == PackagingPipeline_create_installers(host, fs, bundled) IN
        /\ PPStage("Create installers", r.status, <<>>)
        /\ fs' = r.fs
        /\ pp_installers' = r.installers
        /\ UNCHANGED <<sbVars, pp_missing, pp_checksums>>

PP_generate_checksums ==
    /\ PPStage("Generate checksums", "true", <<>>)
    /\ pp_checksums' = PackagingPipeline_generate_checksums(pp_installers, fs)
    /\ UNCHANGED <<fs, sbVars, pp_missing, pp_installers>>

\* build-and-package.py: main has loaded the configuration and built the
\* pipeline object; run_full_pipeline is about to start.
InitPP ==
    /\ script = "build-and-package"
    /\ host \in PPHosts
    /\ config \in Configs
    /\ fs \in { f \in InitialFs(host) : DOMAIN f \in {{}, LeftoverPaths(host)} }
    /\ log = <<>>
    /\ SBInit("idle")
    /\ pp_pc = "Check dependencies" /\ pp_calls = <<>> /\ pp_result = "none"
    /\ pp_failed = "none" /\ pp_missing = <<>> /\ pp_installers = <<>>
    /\ pp_checksums = NoChecksums
    /\ PBIdle
    /\ ToolsIdle

\* build-and-package.py, main: sys.exit(0 if success else 1).
PP_main_exit ==
    /\ script = "build-and-package"
    /\ pp_pc = "done"
    /\ MainExit(pp_result)
    /\ UNCHANGED vrVars

NextPP ==
    \/ PP_check_dependencies
    \/ PP_build_sidecar_binaries
    \/ PP_build_sidecar_binaries_exit
    \/ SB_check_dependencies
    \/ SB_install_gytmdl_dependencies
    \/ SB_build_binary
    \/ SB_validate_binary
    \/ SB_create_manifest
    \/ PP_build_frontend
    \/ PP_build_tauri_app
    \/ PP_sign_binaries
    \/ PP_create_installers
    \/ PP_generate_checksums
    \/ PP_main_exit

SpecPP == InitPP /\ [][NextPP]_vars

(***************************************************************************)
(* PackagingPipeline.generate_checksums called on its own with a list of   *)
(* files, some of which may not be on disk.                                *)
(***************************************************************************)

\* The longest list of files generate_checksums is given.
MaxFiles == 3

\* The files the list is drawn from: installers in the dist directory.
ChecksumCandidates ==
    { PathOf(DistDir, InstallerName("x86_64-unknown-linux-gnu", format)) :
        format \in {"deb", "rpm", "appimage"} }

RECURSIVE FileLists(_)
FileLists(n) ==
    IF n = 0 THEN { <<>> }
    ELSE FileLists(n - 1) \cup
         { Append(l, p) : l \in { m \in FileLists(n - 1) : Len(m) = n - 1 },
                          p \in ChecksumCandidates }

InitCK ==
    /\ script = "build-and-package"
    /\ host = [system |-> "linux", machine |-> "x86_64", maxsize |-> MaxSize64]
    /\ config = DefaultConfig
    /\ \E S \in SUBSET ChecksumCandidates :
           fs = [p \in S |-> Content("installer", FALSE, p.name[Len(p.name)], "new")]
    /\ log = <<>>
    /\ SBInit("idle")
    /\ pp_pc = "Generate checksums" /\ pp_calls = <<>> /\ pp_result = "none"
    /\ pp_failed = "none" /\ pp_missing = <<>>
    /\ pp_installers \in FileLists(MaxFiles)
    /\ pp_checksums = NoChecksums
    /\ PBIdle
    /\ ToolsIdle

NextCK == PP_generate_checksums

SpecCK == InitCK /\ [][NextCK]_vars

(***************************************************************************)
(* scripts/build-production-bundle.py: ProductionBundleBuilder.            *)
(***************************************************************************)

\* ProductionBundleBuilder._get_platform_info: the same table as
\* PackagingPipeline's, with ValueError for an unsupported system.
ProductionBundleBuilder_get_platform_info(h) == PackagingPipeline_get_platform_info(h)

\* The hosts on which ProductionBundleBuilder.__init__ returns.
PBHosts == { h \in Hosts : ProductionBundleBuilder_get_platform_info(h).os # "unsupported" }

\* ProductionBundleBuilder.target_platforms.
TargetPlatforms ==
    << [name |-> "Windows x64", target |-> "x86_64-pc-windows-msvc",
        extension |-> ".exe", os |-> "windows", arch |-> "x86_64"],
       [name |-> "Windows x86", target |-> "i686-pc-windows-msvc",
        extension |-> ".exe", os |-> "windows", arch |-> "i686"],
       [name |-> "macOS Intel", target |-> "x86_64-apple-darwin",
        extension |-> "", os |-> "macos", arch |-> "x86_64"],
       [name |-> "macOS Apple Silicon", target |-> "aarch64-apple-darwin",
        extension |-> "", os |-> "macos", arch |-> "aarch64"],
       [name |-> "Linux x64", target |-> "x86_64-unknown-linux-gnu",
        extension |-> "", os |-> "linux", arch |-> "x86_64"],
       [name |-> "Linux ARM64", target |-> "aarch64-unknown-linux-gnu",
        extension |-> "", os |-> "linux", arch |-> "aarch64"] >>

\* required_tools of ProductionBundleBuilder.check_dependencies.
PBRequiredTools == <<"node", "npm", "cargo", "python3", "pyinstaller">>

\* ProductionBundleBuilder.check_dependencies: the probes, then the source
\* directory, which joins the missing list as "gytmdl-source".
ProductionBundleBuilder_check_dependencies(outcomeOf, srcExists) ==
    LET probes  == probe_tools(PBRequiredTools, outcomeOf)
        missing == probes.missing \o (IF srcExists THEN <<>> ELSE <<"gytmdl-source">>)
    IN  IF probes.blocked
        THEN [status |-> "blocked", cmds |-> probes.cmds, missing |-> probes.missing]
        ELSE [status |-> IF missing # <<>> THEN "false" ELSE "true",
              cmds |-> probes.cmds, missing |-> missing]

\* build_sidecar_for_current_platform: the entry of target_platforms for the
\* current target, if there is one.
IsTargetPlatform(target) ==
    \E i \in DOMAIN TargetPlatforms : TargetPlatforms[i].target = target

\* The path build_sidecar_for_current_platform and verify_sidecar_detection
\* look at for a platform's binary.
SidecarPath(target, extension) == PathOf(SidecarsDir, BinaryName(target, extension))

\* build_sidecar_for_current_platform from the return of subprocess.run: None
\* after a non-zero exit or when the binary is not at the expected location.
ProductionBundleBuilder_build_sidecar_exit(h, f, childPc, childResult) ==
    LET info == ProductionBundleBuilder_get_platform_info(h)
        s    == ChildStatus(childPc, childResult)
    IN  IF s # "true" THEN s
        ELSE IF Exists(f, SidecarPath(info.target, info.extension)) THEN "true"
        ELSE "false"

\* A mock step that skips no platform.
mock_skips_platform_never(platform, current_target) == FALSE

\* create_mock_sidecars_for_other_platforms, "if platform['target'] ==
\* current_target: continue".
mock_skips_platform(platform, current_target) == platform.target = current_target

\* create_mock_sidecars_for_other_platforms, the loop: the files written, in
\* order, and the mock binaries returned.
RECURSIVE mock_loop(_, _)
mock_loop(platforms, current_target) ==
    IF platforms = <<>> THEN [writes |-> <<>>, mock_binaries |-> <<>>]
    ELSE LET platform == Head(platforms)
             binary_name   == BinaryName(platform.target, platform.extension)
             binary_path   == PathOf(SidecarsDir, binary_name)
             manifest_path == PathOf(SidecarsDir, AppendJson(binary_name))
             rest == mock_loop(Tail(platforms), current_target)
         IN  IF mock_skips_platform(platform, current_target) THEN rest
             ELSE [writes |->
                     << [path |-> binary_path,
                         content |-> Content("binary", TRUE, platform.target, "mock")],
                        [path |-> manifest_path,
                         content |-> Content("manifest", TRUE, platform.target, "mock")] >>
                     \o rest.writes,
                   mock_binaries |-> <<binary_path>> \o rest.mock_binaries]

\* The file system after a sequence of writes.
RECURSIVE ApplyWrites(_, _)
ApplyWrites(f, writes) ==
    IF writes = <<>> THEN f
    ELSE ApplyWrites(WriteFile(f, Head(writes).path, Head(writes).content), Tail(writes))

\* ProductionBundleBuilder.create_mock_sidecars_for_other_platforms; the step
\* of run_full_build passes when the returned list is not empty.
ProductionBundleBuilder_create_mock_sidecars(h, f) ==
    LET r == mock_loop(TargetPlatforms, ProductionBundleBuilder_get_platform_info(h).target)
    IN  [status |-> IF Len(r.mock_binaries) > 0 THEN "true" ELSE "false",
         writes |-> r.writes,
         fs |-> ApplyWrites(f, r.writes)]

\* A detection step in which the version probe decides the result.
ProductionBundleBuilder_verify_sidecar_detection_probe_decides(h, f, o) ==
    [status |-> IF SubprocessRun(o, FALSE, TRUE) = "returncode_zero" THEN "true" ELSE "false",
     cmds |-> <<Cmd("sidecar --version", o)>>]

\* ProductionBundleBuilder.verify_sidecar_detection: every target platform's
\* binary must exist; the version probe of the current platform's binary runs
\* under a 30 second timeout and whatever it does is only reported.
ProductionBundleBuilder_verify_sidecar_detection(h, f, o) ==
    LET info == ProductionBundleBuilder_get_platform_info(h)
        missing_binaries ==
            { i \in DOMAIN TargetPlatforms :
                ~Exists(f, SidecarPath(TargetPlatforms[i].target, TargetPlatforms[i].extension)) }
        r == SubprocessRun(o, FALSE, TRUE)
    IN  IF missing_binaries # {} THEN [status |-> "false", cmds |-> <<>>]
        ELSE [status |-> IF r = "blocks" THEN "blocked" ELSE "true",
              cmds |-> <<Cmd("sidecar --version", o)>>]

\* ProductionBundleBuilder.create_installers: the installers found in the
\* bundle directory are copied to the dist directory under the same names as
\* PackagingPipeline's.
ProductionBundleBuilder_create_installers(h, f, bundled) ==
    LET info == ProductionBundleBuilder_get_platform_info(h)
        r    == create_installers_loop(info.installer_formats, bundled, info.target, f)
    IN  [status |-> IF r.installers = <<>> THEN "empty" ELSE "true",
         installers |-> r.installers, fs |-> r.fs]

\* ProductionBundleBuilder.generate_build_report: asks date for the time (not
\* on Windows), collects the binaries and installers on disk and writes
\* build-report.json.
ProductionBundleBuilder_generate_build_report(h, f, installers, o) ==
    LET r == SubprocessRun(o, FALSE, FALSE)
        sidecars == { i \in DOMAIN TargetPlatforms :
                        Exists(f, SidecarPath(TargetPlatforms[i].target,
                                              TargetPlatforms[i].extension)) }
        report == [written |-> TRUE, sidecar_binaries |-> sidecars,
                   checksums |-> checksum_lines(installers, f)]
        c == IF h.system = "windows" THEN <<>> ELSE <<Cmd("date -u (report)", o)>>
    IN  IF h.system # "windows" /\ r = "blocks"
        THEN [status |-> "blocked", cmds |-> c, report |-> NoReport]
        ELSE IF h.system # "windows" /\ r = "FileNotFoundError"
        THEN [status |-> "raised", cmds |-> c, report |-> NoReport]
        ELSE [status |-> "true", cmds |-> c, report |-> report]

\* The stages of run_full_build: the steps list, then installer creation and
\* the build report.
PBOrder ==
    <<"Check dependencies", "Build sidecar for current platform",
      "Create mock sidecars for other platforms", "Verify sidecar detection",
      "Build frontend", "Build Tauri app", "Create installers", "Generate build report">>

PBSuccessor(step) ==
    IF \E i \in 1..(Len(PBOrder) - 1) : PBOrder[i] = step
    THEN PBOrder[(CHOOSE i \in 1..(Len(PBOrder) - 1) : PBOrder[i] = step) + 1]
    ELSE "done"

\* A run_full_build that writes the report after a failed step as well.
ProductionBundleBuilder_run_full_build_reports_anyway(step, status) ==
    CASE status \in {"true", "empty"} ->
           [pc |-> PBSuccessor(step),
            result |-> IF PBSuccessor(step) = "done" THEN "true" ELSE "none",
            failed |-> "none"]
      [] status = "false"  -> [pc |-> "Generate build report", result |-> "none",
                               failed |-> step]
      [] status = "raised" -> [pc |-> "done", result |-> "raised", failed |-> "none"]
      [] OTHER             -> [pc |-> "blocked", result |-> "none", failed |-> "none"]

\* ProductionBundleBuilder.run_full_build: what follows a stage that returned
\* status.  A step of the steps list that returns false ends the run with
\* False; the report is written whether or not installers were found.
ProductionBundleBuilder_run_full_build(step, status) ==
    CASE status \in {"true", "empty"} ->
           [pc |-> PBSuccessor(step),
            result |-> IF PBSuccessor(step) = "done" THEN "true" ELSE "none",
            failed |-> "none"]
      [] status = "false"  -> [pc |-> "done", result |-> "false", failed |-> step]
      [] status = "raised" -> [pc |-> "done", result |-> "raised", failed |-> "none"]
      [] OTHER             -> [pc |-> "blocked", result |-> "none", failed |-> "none"]

PBStage(step, status, cmds) ==
    /\ pb_pc = step
    /\ pb_calls' = Append(pb_calls, [step |-> step, ret |-> status])
    /\ pb_pc' = ProductionBundleBuilder_run_full_build(step, status).pc
    /\ pb_result' = ProductionBundleBuilder_run_full_build(step, status).result
    /\ pb_failed' = ProductionBundleBuilder_run_full_build(step, status).failed
    /\ log' = log \o cmds
    /\ UNCHANGED <<envVars, toolVars, ppVars>>

PB_check_dependencies ==
    \E outcomeOf \in [{"node", "npm", "cargo", "python3"} -> Outcomes],
       oPyInstaller \in PythonOutcomes, srcExists \in BOOLEAN :
        LET r == ProductionBundleBuilder_check_dependencies(
                     [t \in {"node", "npm", "cargo", "python3", "pyinstaller"} |->
                         IF t = "pyinstaller" THEN oPyInstaller ELSE outcomeOf[t]],
                     srcExists) IN
        /\ PBStage("Check dependencies", r.status, r.cmds)
        /\ pb_missing' = r.missing
        /\ UNCHANGED <<fs, sbVars, pb_writes, pb_installers, pb_report>>

\* build_sidecar_for_current_platform up to subprocess.run: None when the
\* current target is not in target_platforms, else build-sidecars.py is started.
PB_build_sidecar ==
    /\ pb_pc = "Build sidecar for current platform"
    /\ IF IsTargetPlatform(ProductionBundleBuilder_get_platform_info(host).target)
       THEN /\ pb_pc' = "Build sidecar for current platform (waiting)"
            /\ sb_pc' = "check_dependencies"
            /\ log' = Append(log, Cmd("python build-sidecars.py", "child"))
            /\ UNCHANGED <<pb_calls, pb_result, pb_failed,
                           sb_trace, sb_result, sb_binary, sb_found, envVars, toolVars,
                           ppVars>>
       ELSE /\ PBStage("Build sidecar for current platform", "false", <<>>)
            /\ UNCHANGED sbVars
    /\ UNCHANGED <<fs, pb_missing, pb_writes, pb_installers, pb_report>>

PB_build_sidecar_exit ==
    /\ pb_pc = "Build sidecar for current platform (waiting)"
    /\ sb_pc \in {"done", "blocked"}
    /\ LET status == ProductionBundleBuilder_build_sidecar_exit(host, fs, sb_pc, sb_result)
           next   == ProductionBundleBuilder_run_full_build(
                         "Build sidecar for current platform", status)
       IN  /\ pb_calls' = Append(pb_calls,
                                 [step |-> "Build sidecar for current platform", ret |-> status])
           /\ pb_pc' = next.pc
           /\ pb_result' = next.result
           /\ pb_failed' = next.failed
    /\ UNCHANGED <<envVars, toolVars, ppVars, sbVars, fs, log,
                   pb_missing, pb_writes, pb_installers, pb_report>>

PB_create_mock_sidecars ==
    LET r == ProductionBundleBuilder_create_mock_sidecars(host, fs) IN
    /\ PBStage("Create mock sidecars for other platforms", r.status, <<>>)
    /\ fs' = r.fs
    /\ pb_writes' = r.writes
    /\ UNCHANGED <<sbVars, pb_missing, pb_installers, pb_report>>

PB_verify_sidecar_detection ==
    \E o \in Outcomes :
        LET r == ProductionBundleBuilder_verify_sidecar_detection(host, fs, o) IN
        /\ PBStage("Verify sidecar detection", r.status, r.cmds)
        /\ UNCHANGED <<fs, sbVars, pb_missing, pb_writes, pb_installers, pb_report>>

\* ProductionBundleBuilder.build_frontend is PackagingPipeline.build_frontend.
PB_build_frontend ==
    \E o1 \in FoundOutcomes, o2 \in FoundOutcomes :
        LET r == PackagingPipeline_build_frontend(o1, o2) IN
        /\ PBStage("Build frontend", r.status, r.cmds)
        /\ UNCHANGED <<fs, sbVars, pb_missing, pb_writes, pb_installers, pb_report>>

\* ProductionBundleBuilder.build_tauri_app is PackagingPipeline.build_tauri_app.
PB_build_tauri_app ==
    \E o \in FoundOutcomes :
        LET r == PackagingPipeline_build_tauri_app(o) IN
        /\ PBStage("Build Tauri app", r.status, r.cmds)
        /\ UNCHANGED <<fs, sbVars, pb_missing, pb_writes, pb_installers, pb_report>>

PB_create_installers ==
    \E bundled \in SUBSET SupportedFormats :
        LET r == ProductionBundleBuilder_create_installers(host, fs, bundled) IN
        /\ PBStage("Create installers", r.status, <<>>)
        /\ fs' = r.fs
        /\ pb_installers' = r.installers
        /\ UNCHANGED <<sbVars, pb_missing, pb_writes, pb_report>>

PB_generate_build_report ==
    \E o \in Outcomes :
        LET r == ProductionBundleBuilder_generate_build_report(host, fs, pb_installers, o) IN
        /\ PBStage("Generate build report", r.status, r.cmds)
        /\ pb_report' = r.report
        /\ UNCHANGED <<fs, sbVars, pb_missing, pb_writes, pb_installers>>

\* build-production-bundle.py: main has loaded the configuration and built the
\* builder object; run_full_build is about to start.
InitPB ==
    /\ script = "build-production-bundle"
    /\ host \in PBHosts
    /\ config = DefaultConfig
    /\ fs \in InitialFs(host)
    /\ log = <<>>
    /\ SBInit("idle")
    /\ PPIdle
    /\ pb_pc = "Check dependencies" /\ pb_calls = <<>> /\ pb_result = "none"
    /\ pb_failed = "none" /\ pb_missing = <<>> /\ pb_writes = <<>>
    /\ pb_installers = <<>> /\ pb_report = NoReport
    /\ ToolsIdle

\* build-production-bundle.py, main: sys.exit(0 if success else 1).
PB_main_exit ==
    /\ script = "build-production-bundle"
    /\ pb_pc = "done"
    /\ MainExit(pb_result)
    /\ UNCHANGED vrVars

NextPB ==
    \/ PB_check_dependencies
    \/ PB_build_sidecar
    \/ PB_build_sidecar_exit
    \/ SB_check_dependencies
    \/ SB_install_gytmdl_dependencies
    \/ SB_build_binary
    \/ SB_validate_binary
    \/ SB_create_manifest
    \/ PB_create_mock_sidecars
    \/ PB_verify_sidecar_detection
    \/ PB_build_frontend
    \/ PB_build_tauri_app
    \/ PB_create_installers
    \/ PB_generate_build_report
    \/ PB_main_exit

SpecPB == InitPB /\ [][NextPB]_vars

(***************************************************************************)
(* scripts/create-mock-sidecars.py: create_mock_sidecars.                  *)
(***************************************************************************)

\* The platforms list of create_mock_sidecars: the six entries of
\* ProductionBundleBuilder.target_platforms, in the same order.
MockScript_platforms == TargetPlatforms

\* create_mock_sidecars, current_target; "none" stands for None.
MockScript_current_target(h) ==
    CASE h.system = "darwin" ->
           IF h.machine = "arm64" THEN "aarch64-apple-darwin" ELSE "x86_64-apple-darwin"
      [] h.system = "windows" ->
           IF Has64(h.maxsize) THEN "x86_64-pc-windows-msvc" ELSE "i686-pc-windows-msvc"
      [] h.system = "linux" -> h.machine \o "-unknown-linux-gnu"
      [] OTHER -> "none"

\* The mock content create_mock_sidecars chooses: the "more realistic mock"
\* that exits 0 for the current platform, the simple mock that exits 1 for
\* the others.
MockScript_content(type, platform_info, current_target) ==
    Content(type, TRUE, platform_info.target,
            IF platform_info.target = current_target THEN "mock-current" ELSE "mock")

\* One pass of the loop of create_mock_sidecars: the binary and the manifest
\* it writes for platform_info.
MockScript_writes(platform_info, current_target) ==
    LET binary_name == BinaryName(platform_info.target, platform_info.extension) IN
    << [path |-> PathOf(SidecarsDir, binary_name),
        content |-> MockScript_content("binary", platform_info, current_target)],
       [path |-> PathOf(SidecarsDir, AppendJson(binary_name)),
        content |-> MockScript_content("manifest", platform_info, current_target)] >>

\* The loop of create_mock_sidecars at platform ms_pc; after the last platform
\* the function returns True.
MS_write_platform ==
    /\ ms_pc \in DOMAIN MockScript_platforms
    /\ LET w == MockScript_writes(MockScript_platforms[ms_pc],
                                  MockScript_current_target(host))
       IN  /\ fs' = ApplyWrites(fs, w)
           /\ ms_writes' = ms_writes \o w
    /\ ms_pc' = ms_pc + 1
    /\ ms_result' = IF ms_pc = Len(MockScript_platforms) THEN "true" ELSE ms_result
    /\ UNCHANGED <<envVars, log, sbVars, ppVars, pbVars, ssVars, vrVars, mwVars, testVars, exit_code>>

\* What the sidecars directory may hold when the script starts: nothing, or
\* the binary of one target platform left by a real build, with or without a
\* manifest beside it.
MockScript_InitialFs ==
    { [p \in {} |-> Content("binary", FALSE, "", "old")] } \cup
    { [p \in {SidecarPath(t.target, t.extension)} |->
          Content("binary", FALSE, t.target, "old")] :
        t \in { TargetPlatforms[i] : i \in DOMAIN TargetPlatforms } } \cup
    { [p \in {SidecarPath(t.target, t.extension),
              PathOf(SidecarsDir, AppendJson(BinaryName(t.target, t.extension)))} |->
          IF p = SidecarPath(t.target, t.extension)
          THEN Content("binary", FALSE, t.target, "old")
          ELSE Content("manifest", FALSE, t.target, "old")] :
        t \in { TargetPlatforms[i] : i \in DOMAIN TargetPlatforms } }

\* create-mock-sidecars.py started from the command line.
InitMS ==
    /\ script = "create-mock-sidecars" /\ exit_code = "running"
    /\ host \in Hosts
    /\ config = DefaultConfig
    /\ fs \in MockScript_InitialFs
    /\ log = <<>>
    /\ SBInit("idle")
    /\ PPIdle
    /\ PBIdle
    /\ ms_pc = 1 /\ ms_writes = <<>> /\ ms_result = "none"
    /\ SSIdle
    /\ VRIdle
    /\ MWIdle
    /\ TestsIdle

NextMS == MS_write_platform

SpecMS == InitMS /\ [][NextMS]_vars

(***************************************************************************)
(* scripts/build-simple-sidecar.py (main) and CompleteTester's             *)
(* build_sidecar_simple in scripts/test-and-build.py: the same build with  *)
(* a temporary entry script, the second with a timeout on every command.   *)
(***************************************************************************)

\* build-simple-sidecar.py, get_platform_info: (target, extension).
SimpleSidecar_get_platform_info(h) ==
    CASE h.system = "darwin" ->
           [target |-> IF h.machine = "arm64" THEN "aarch64-apple-darwin"
                       ELSE "x86_64-apple-darwin", extension |-> ""]
      [] h.system = "linux" ->
           [target |-> IF h.machine = "x86_64" THEN "x86_64-unknown-linux-gnu"
                       ELSE IF h.machine = "aarch64" THEN "aarch64-unknown-linux-gnu"
                       ELSE "unknown-linux-gnu", extension |-> ""]
      [] h.system = "windows" ->
           [target |-> IF Has64(h.maxsize) THEN "x86_64-pc-windows-msvc"
                       ELSE "i686-pc-windows-msvc", extension |-> ".exe"]
      [] OTHER -> [target |-> "unknown", extension |-> ""]

\* CompleteTester._get_platform_info: target and extension.
CompleteTester_get_platform_info(h) ==
    CASE h.system = "darwin" ->
           [target |-> IF h.machine = "arm64" THEN "aarch64-apple-darwin"
                       ELSE "x86_64-apple-darwin", extension |-> ""]
      [] h.system = "linux" ->
           [target |-> h.machine \o "-unknown-linux-gnu", extension |-> ""]
      [] h.system = "windows" ->
           [target |-> IF Has64(h.maxsize) THEN "x86_64-pc-windows-msvc"
                       ELSE "i686-pc-windows-msvc", extension |-> ".exe"]
      [] OTHER -> [target |-> "", extension |-> ""]

\* The two implementations of the simple build.
SimpleVariants == {"build-simple-sidecar", "CompleteTester"}

\* CompleteTester passes timeout= to every subprocess.run; main passes it only
\* to the test of the binary.
HasTimeouts(variant) == variant = "CompleteTester"

\* The value returned on failure and on success: main returns the exit code,
\* build_sidecar_simple returns None or the path of the binary.
SimpleFailure(variant) == IF variant = "CompleteTester" THEN "None" ELSE "1"

SimpleSuccess(variant) == IF variant = "CompleteTester" THEN "path" ELSE "0"

\* tempfile.NamedTemporaryFile(suffix='.py', delete=False)
EntryScript == PathOf("tmp", <<"tmpentry", "py">>)

\* --workpath and --specpath of the PyInstaller run
SimpleBuildDir == PathOf(SidecarsDir, <<"build">>)

SimpleSpecDir == PathOf(SidecarsDir, <<"spec">>)

\* The binary the simple build expects in the sidecars directory.
SimpleSidecar_binary(variant, h) ==
    LET info == IF variant = "CompleteTester" THEN CompleteTester_get_platform_info(h)
                ELSE SimpleSidecar_get_platform_info(h)
    IN  PathOf(SidecarsDir, BinaryName(info.target, info.extension))

RECURSIVE RemoveFiles(_, _)
RemoveFiles(f, paths) ==
    IF paths = <<>> THEN f
    ELSE RemoveFiles(IF Exists(f, Head(paths)) THEN RemoveFile(f, Head(paths)) ELSE f,
                     Tail(paths))

\* A finally block that removes the entry script only.
SimpleSidecar_finally_keeps_workdirs(f) == RemoveFiles(f, <<EntryScript>>)

\* The finally block: os.unlink(entry_script), then shutil.rmtree of build and
\* spec where they exist.
SimpleSidecar_finally(f) == RemoveFiles(f, <<EntryScript, SimpleBuildDir, SimpleSpecDir>>)

\* A command of the simple build before the try block, run with check=True:
\* "true" when it exited zero, "false" when the caller catches what it raised,
\* "blocked" when it never returns and there is no timeout.
SimpleChecked(variant, o) ==
    LET r == SubprocessRun(o, TRUE, HasTimeouts(variant)) IN
    CASE r = "blocks"             -> "blocked"
      [] r = "returncode_zero"    -> "true"
      [] OTHER                    -> "false"

\* The PyInstaller check: the probe, and pip install pyinstaller when the
\* probe failed.
SimpleSidecar_install_pyinstaller(variant, oProbe, oInstall) ==
    LET s1 == SimpleChecked(variant, oProbe)
        s2 == SimpleChecked(variant, oInstall)
        c1 == <<Cmd("python -m PyInstaller --version", oProbe)>>
        c2 == c1 \o <<Cmd("pip install pyinstaller", oInstall)>>
    IN  IF s1 \in {"true", "blocked"} THEN [status |-> s1, cmds |-> c1]
        ELSE [status |-> s2, cmds |-> c2]

\* The try block after the PyInstaller run with outcome o: the value returned.
\* The test of the binary runs under a 30 second timeout and never changes
\* the result.
SimpleSidecar_after_pyinstaller(variant, h, f, o) ==
    LET r == SubprocessRun(o, FALSE, HasTimeouts(variant)) IN
    CASE r = "returncode_nonzero" -> [result |-> SimpleFailure(variant), tested |-> FALSE]
      [] r = "TimeoutExpired"     -> [result |-> SimpleFailure(variant), tested |-> FALSE]
      [] OTHER ->
           IF Exists(f, SimpleSidecar_binary(variant, h))
           THEN [result |-> SimpleSuccess(variant), tested |-> TRUE]
           ELSE [result |-> SimpleFailure(variant), tested |-> FALSE]

SSStep(step, status, cmds, next) ==
    /\ ss_pc = step
    /\ ss_trace' = Append(ss_trace, [step |-> step, ret |-> status])
    /\ log' = log \o cmds
    /\ ss_pc' = CASE status = "true"    -> next
                  [] status = "blocked" -> "blocked"
                  [] OTHER              -> "done"
    /\ ss_result' = IF status = "false" THEN SimpleFailure(ss_variant) ELSE ss_result
    /\ UNCHANGED <<envVars, ss_variant, msVars, sbVars, ppVars, pbVars, vrVars, mwVars, testVars,
                   exit_code>>

\* main: "if not gytmdl_src.exists(): return 1".  build_sidecar_simple has no
\* such test and goes straight to the PyInstaller check.
SS_check_source ==
    \E srcExists \in BOOLEAN :
        /\ SSStep("check_source",
                  IF ss_variant = "CompleteTester" \/ srcExists THEN "true" ELSE "false",
                  <<>>, "install_pyinstaller")
        /\ UNCHANGED fs

SS_install_pyinstaller ==
    \E oProbe \in PythonOutcomes, oInstall \in PythonOutcomes :
        LET r == SimpleSidecar_install_pyinstaller(ss_variant, oProbe, oInstall) IN
        /\ SSStep("install_pyinstaller", r.status, r.cmds, "install_gytmdl")
        /\ UNCHANGED fs

SS_install_gytmdl ==
    \E o \in PythonOutcomes :
        /\ SSStep("install_gytmdl", SimpleChecked(ss_variant, o),
                  <<Cmd("pip install -e gytmdl", o)>>, "create_entry_script")
        /\ UNCHANGED fs

SS_create_entry_script ==
    /\ SSStep("create_entry_script", "true", <<>>, "run_pyinstaller")
    /\ fs' = WriteFile(fs, EntryScript, Content("script", FALSE, "", "new"))

\* The PyInstaller run: the tool leaves its work and spec directories and,
\* when it exits zero, possibly the binary.  Without a timeout a run that
\* never returns blocks the script inside the try block.
SS_run_pyinstaller ==
    \E o \in PythonOutcomes, left \in SUBSET {SimpleBuildDir, SimpleSpecDir},
       binary \in BOOLEAN :
        LET r  == SubprocessRun(o, FALSE, HasTimeouts(ss_variant))
            dirs == { d \in {SimpleBuildDir, SimpleSpecDir} : d \in left }
            f2 == [p \in DOMAIN fs \cup dirs |->
                     IF p \in dirs THEN Content("directory", FALSE, "", "new") ELSE fs[p]]
            f3 == IF o = "ok" /\ binary
                  THEN WriteFile(f2, SimpleSidecar_binary(ss_variant, host),
                                 Content("binary", FALSE, "", "new"))
                  ELSE f2
        IN  /\ SSStep("run_pyinstaller", IF r = "blocks" THEN "blocked" ELSE "true",
                      <<Cmd("python -m PyInstaller --onefile", o)>>, "finish")
            /\ fs' = f3

\* The rest of the try block and the finally block, up to the return.
SS_finish ==
    \E oTest \in Outcomes :
        LET o == log[Len(log)].outcome
            r == SimpleSidecar_after_pyinstaller(ss_variant, host, fs, o)
        IN  /\ ss_pc = "finish"
            /\ ss_trace' = Append(ss_trace, [step |-> "finish", ret |-> r.result])
            /\ log' = IF r.tested THEN Append(log, Cmd("sidecar --version", oTest)) ELSE log
            /\ ss_pc' = "done"
            /\ ss_result' = r.result
            /\ fs' = SimpleSidecar_finally(fs)
            /\ UNCHANGED <<envVars, ss_variant, msVars, sbVars, ppVars, pbVars, vrVars, mwVars, testVars,
                   exit_code>>

\* The simple build is started: the sidecars directory may hold the work
\* directories and the binary of an earlier run.
InitSS ==
    /\ ss_variant \in SimpleVariants
    /\ script = (IF ss_variant = "CompleteTester" THEN "test-and-build" ELSE ss_variant)
    /\ exit_code = "running"
    /\ VRIdle
    /\ MWIdle
    /\ TestsIdle
    /\ host \in (IF ss_variant = "CompleteTester" THEN PPHosts ELSE Hosts)
    /\ config = DefaultConfig
    /\ \E S \in SUBSET {SimpleBuildDir, SimpleSpecDir} :
           fs = [p \in S |-> Content("directory", FALSE, "", "old")]
    /\ log = <<>>
    /\ SBInit("idle")
    /\ PPIdle
    /\ PBIdle
    /\ MSIdle
    /\ ss_pc = "check_source" /\ ss_trace = <<>> /\ ss_result = "none"

NextSS ==
    \/ SS_check_source
    \/ SS_install_pyinstaller
    \/ SS_install_gytmdl
    \/ SS_create_entry_script
    \/ SS_run_pyinstaller
    \/ SS_finish

SpecSS == InitSS /\ [][NextSS]_vars

(***************************************************************************)
(* scripts/validate-release-pipeline.py: ReleasePipelineValidator.         *)
(***************************************************************************)

\* The checks list of run_validation.
VRChecks ==
    <<"check_workflow_files", "check_workflow_syntax", "check_project_structure",
      "check_version_consistency", "check_build_dependencies",
      "check_sidecar_build_setup", "check_tauri_configuration">>

VRSuccessor(check) ==
    IF \E i \in 1..(Len(VRChecks) - 1) : VRChecks[i] = check
    THEN VRChecks[(CHOOSE i \in 1..(Len(VRChecks) - 1) : VRChecks[i] = check) + 1]
    ELSE "report"

\* ReleasePipelineValidator.required_workflows
required_workflows ==
    <<"build-and-release.yml", "dependency-update.yml", "security-scan.yml",
      "release-management.yml">>

\* check_project_structure, required_files
required_files ==
    <<"package.json", "src-tauri/Cargo.toml", "src-tauri/tauri.conf.json",
      "src-tauri/src/main.rs", "build-scripts/build-sidecars.py">>

\* check_build_dependencies, dependencies
VRDependencies == <<"node", "npm", "cargo", "python3">>

\* The bundle and updater sections of tauri.conf.json that the validator reads.
TauriConfigs ==
    { [active |-> TRUE,  externalBin |-> TRUE,  targets |-> TRUE,  updater |-> TRUE],
      [active |-> TRUE,  externalBin |-> TRUE,  targets |-> FALSE, updater |-> FALSE],
      [active |-> FALSE, externalBin |-> TRUE,  targets |-> TRUE,  updater |-> TRUE],
      [active |-> TRUE,  externalBin |-> FALSE, targets |-> TRUE,  updater |-> FALSE] }

\* The project the validator is pointed at.  wf: the .github/workflows
\* directory ("denied": .github cannot be searched, so Path.exists raises
\* PermissionError; "unreadable": the first workflow file cannot be opened;
\* "one_invalid": the first workflow lacks a jobs: section; "one_missing": the
\* third workflow is absent).  missing: the required file that is absent.
\* versions: the version of package.json against the others.  sidecars: the
\* src-tauri/sidecars directory.
VREnvs ==
    [ wf       : {"denied", "nodir", "all_valid", "one_missing", "one_invalid", "unreadable"},
      missing  : {"none", "package.json", "src-tauri/tauri.conf.json",
                  "build-scripts/build-sidecars.py"},
      versions : {"same", "differ", "unparsable"},
      sidecars : {"nodir", "empty", "some"},
      tauri    : TauriConfigs ]

\* log_result(check, passed, message): the tuple appended to
\* validation_results; the name is the label and the item it is about.
Tuple(label, item, passed) == [label |-> label, item |-> item, passed |-> passed]

RECURSIVE Flatten(_)
Flatten(seqs) == IF seqs = <<>> THEN <<>> ELSE Head(seqs) \o Flatten(Tail(seqs))

\* The tuples a loop over items appends: Body(item) is a sequence of tuples.
ForEach(items, Body(_)) == Flatten([k \in DOMAIN items |-> Body(items[k])])

AllPassed(results) == \A k \in DOMAIN results : results[k].passed

WorkflowExists(env, w) ==
    /\ env.wf \notin {"denied", "nodir"}
    /\ ~(env.wf = "one_missing" /\ w = required_workflows[3])

FileExists(env, f) == env.missing # f

\* check_workflow_files
check_workflow_files(env) ==
    LET body(w) == <<Tuple("Workflow", w, WorkflowExists(env, w))>>
        results == ForEach(required_workflows, body)
    IN  CASE env.wf = "denied" -> [ret |-> "raised", results |-> <<>>]
          [] env.wf = "nodir"  ->
               [ret |-> "false", results |-> <<Tuple("Workflows directory", "", FALSE)>>]
          [] OTHER ->
               [ret |-> IF AllPassed(results) THEN "true" ELSE "false", results |-> results]

\* check_workflow_syntax: a workflow that does not exist is skipped; one that
\* cannot be read, or lacks name:, on: or jobs:, fails.
check_workflow_syntax(env) ==
    LET valid(w) == ~(env.wf \in {"one_invalid", "unreadable"} /\ w = required_workflows[1])
        body(w) == IF WorkflowExists(env, w) THEN <<Tuple("Syntax", w, valid(w))>> ELSE <<>>
        results == ForEach(required_workflows, body)
    IN  IF env.wf = "denied" THEN [ret |-> "raised", results |-> <<>>]
        ELSE [ret |-> IF AllPassed(results) THEN "true" ELSE "false", results |-> results]

\* check_project_structure
check_project_structure(env) ==
    LET body(f) == <<Tuple("Project file", f, FileExists(env, f))>>
        results == ForEach(required_files, body)
    IN  [ret |-> IF AllPassed(results) THEN "true" ELSE "false", results |-> results]

\* check_version_consistency: the versions of the files that exist are
\* compared; a package.json that cannot be parsed ends the check.
check_version_consistency(env) ==
    LET has_package == FileExists(env, "package.json")
        consistent  == ~(env.versions = "differ" /\ has_package)
    IN  IF env.versions = "unparsable" /\ has_package
        THEN [ret |-> "false", results |-> <<Tuple("Version", "package.json", FALSE)>>]
        ELSE [ret |-> IF consistent THEN "true" ELSE "false",
              results |-> <<Tuple("Version consistency", "", consistent)>>]

\* check_build_dependencies with the outcome of each dependency's --version
\* run (timeout=10; every exception is caught inside the loop).
check_build_dependencies(outcome) ==
    LET body(d) == <<Tuple("Dependency", d, outcome[d] = "ok")>>
        results == ForEach(VRDependencies, body)
    IN  [ret |-> IF AllPassed(results) THEN "true" ELSE "false", results |-> results]

\* check_sidecar_build_setup: sidecars that are not there yet are recorded as
\* a failed check, and the check returns True.
check_sidecar_build_setup(env) ==
    CASE ~FileExists(env, "build-scripts/build-sidecars.py") ->
           [ret |-> "false", results |-> <<Tuple("Sidecar build script", "", FALSE)>>]
      [] env.sidecars = "nodir" ->
           [ret |-> "false", results |-> <<Tuple("Sidecars directory", "", FALSE)>>]
      [] OTHER ->
           [ret |-> "true",
            results |-> <<Tuple("Sidecar build script", "", TRUE),
                          Tuple("Sidecars directory", "", TRUE),
                          Tuple("Existing sidecars", "", env.sidecars = "some")>>]

\* check_tauri_configuration: four results are recorded, two of them decide.
check_tauri_configuration(env) ==
    IF ~FileExists(env, "src-tauri/tauri.conf.json")
    THEN [ret |-> "false", results |-> <<Tuple("Tauri config", "", FALSE)>>]
    ELSE [ret |-> IF env.tauri.active /\ env.tauri.externalBin THEN "true" ELSE "false",
          results |-> <<Tuple("Bundle active", "", env.tauri.active),
                        Tuple("External binaries", "", env.tauri.externalBin),
                        Tuple("Bundle targets", "", env.tauri.targets),
                        Tuple("Updater plugin", "", env.tauri.updater)>>]

\* The outcomes of the four --version runs: at most one of them is not "ok".
DependencyOutcomes ==
    { [d \in {VRDependencies[i] : i \in DOMAIN VRDependencies} |->
          IF d = bad THEN o ELSE "ok"] :
      bad \in {VRDependencies[i] : i \in DOMAIN VRDependencies}, o \in Outcomes }

\* The check named, run on the project.
VRRunCheck(check, env, outcome) ==
    CASE check = "check_workflow_files"      -> check_workflow_files(env)
      [] check = "check_workflow_syntax"     -> check_workflow_syntax(env)
      [] check = "check_project_structure"   -> check_project_structure(env)
      [] check = "check_version_consistency" -> check_version_consistency(env)
      [] check = "check_build_dependencies"  -> check_build_dependencies(outcome)
      [] check = "check_sidecar_build_setup" -> check_sidecar_build_setup(env)
      [] OTHER                               -> check_tauri_configuration(env)

\* A loop body that lets the last check decide.
run_validation_all_passed_last_check_decides(so_far, ret) == ret = "true"

\* run_validation, the loop body: all_passed stays True only while every
\* check returns a true value; an exception of a check is caught and counts
\* as a failure.
run_validation_all_passed(so_far, ret) == so_far /\ ret = "true"

\* One check of run_validation.
VR_check ==
    \E outcome \in DependencyOutcomes :
        LET r == VRRunCheck(vr_pc, vr_env, outcome) IN
        /\ \E i \in DOMAIN VRChecks : VRChecks[i] = vr_pc
        /\ vr_pc = "check_build_dependencies" \/ outcome[VRDependencies[1]] = "notfound"
        /\ vr_trace' = Append(vr_trace, [step |-> vr_pc, ret |-> r.ret])
        /\ vr_results' = vr_results \o r.results
        /\ vr_all_passed' = run_validation_all_passed(vr_all_passed, r.ret)
        /\ vr_pc' = VRSuccessor(vr_pc)
        /\ log' = IF vr_pc = "check_build_dependencies"
                  THEN log \o [i \in DOMAIN VRDependencies |->
                                  Cmd(VRDependencies[i], outcome[VRDependencies[i]])]
                  ELSE log
        /\ UNCHANGED <<envVars, fs, sbVars, ppVars, pbVars, msVars, ssVars, mwVars, testVars,
                       vr_env, vr_result, exit_code>>

\* generate_report, summary.failed_checks
failed_checks(results) == Cardinality({k \in DOMAIN results : ~results[k].passed})

\* run_validation after the loop: the summary is printed and all_passed is
\* returned.
VR_return ==
    /\ vr_pc = "report"
    /\ vr_pc' = "done"
    /\ vr_result' = IF vr_all_passed THEN "true" ELSE "false"
    /\ UNCHANGED <<envVars, fs, log, sbVars, ppVars, pbVars, msVars, ssVars, mwVars, testVars,
                   vr_env, vr_results, vr_trace, vr_all_passed, exit_code>>

\* validate-release-pipeline.py, main: sys.exit(0 if success else 1).
VR_main_exit ==
    /\ script = "validate-release-pipeline"
    /\ vr_pc = "done"
    /\ MainExit(vr_result)
    /\ UNCHANGED vrVars

\* validate-release-pipeline.py started from the command line.
InitVR ==
    /\ host = [system |-> "linux", machine |-> "x86_64", maxsize |-> MaxSize64]
    /\ config = DefaultConfig
    /\ fs = [p \in {} |-> Content("binary", FALSE, "", "old")]
    /\ log = <<>>
    /\ script = "validate-release-pipeline" /\ exit_code = "running"
    /\ SBInit("idle")
    /\ PPIdle
    /\ PBIdle
    /\ MSIdle
    /\ SSIdle
    /\ MWIdle
    /\ TestsIdle
    /\ vr_env \in VREnvs
    /\ vr_pc = VRChecks[1] /\ vr_trace = <<>> /\ vr_all_passed = TRUE /\ vr_result = "none"
    /\ vr_results = <<>>

NextVR ==
    \/ VR_check
    \/ VR_return
    \/ VR_main_exit

SpecVR == InitVR /\ [][NextVR]_vars

(***************************************************************************)
(* The four entry points with an exit code of their own: build-sidecars,   *)
(* build-and-package, build-production-bundle, validate-release-pipeline.  *)
(***************************************************************************)

InitEntry == InitSB \/ InitPP \/ InitPB \/ InitVR

NextEntry ==
    \/ SB_check_dependencies
    \/ SB_install_gytmdl_dependencies
    \/ SB_build_binary
    \/ SB_validate_binary
    \/ SB_create_manifest
    \/ SB_main_exit
    \/ PP_check_dependencies
    \/ PP_build_sidecar_binaries
    \/ PP_build_sidecar_binaries_exit
    \/ PP_build_frontend
    \/ PP_build_tauri_app
    \/ PP_sign_binaries
    \/ PP_create_installers
    \/ PP_generate_checksums
    \/ PP_main_exit
    \/ PB_check_dependencies
    \/ PB_build_sidecar
    \/ PB_build_sidecar_exit
    \/ PB_create_mock_sidecars
    \/ PB_verify_sidecar_detection
    \/ PB_build_frontend
    \/ PB_build_tauri_app
    \/ PB_create_installers
    \/ PB_generate_build_report
    \/ PB_main_exit
    \/ VR_check
    \/ VR_return
    \/ VR_main_exit

SpecEntry == InitEntry /\ [][NextEntry]_vars

(***************************************************************************)
(* SidecarBuilder.calculate_checksum and create_manifest on a binary whose *)
(* bytes are given: the manifest writer run again and again, with the      *)
(* binary rebuilt in between or not.                                       *)
(***************************************************************************)

\* The longest binary, in bytes.
MaxBytes == 3

\* The byte values a binary is made of.
ByteValues == {0, 1}

\* f.read(4096) scaled to the binaries of the model: the bytes read at once.
ChunkSize == 2

\* The manifest writer runs at most this many times.
MaxRuns == 2

RECURSIVE ByteStrings(_)
ByteStrings(n) ==
    IF n = 0 THEN { <<>> }
    ELSE ByteStrings(n - 1) \cup
         { Append(b, v) : b \in { c \in ByteStrings(n - 1) : Len(c) = n - 1 },
                          v \in ByteValues }

\* The state of a hash object before any update.
HashInit == 7

\* The hash state is kept below this modulus.
HashMod == 1009

\* hashlib's update: the bytes of the chunk are absorbed one after the other.
RECURSIVE sha256_update(_, _)
sha256_update(state, chunk) ==
    IF chunk = <<>> THEN state
    ELSE sha256_update((state * 31 + Head(chunk) + 1) % HashMod, Tail(chunk))

\* hexdigest of a hash object in the given state.
hexdigest(state) == [hex |-> state]

\* f.read(n): the next n bytes, fewer at the end of the file, b"" after it.
FileRead(bytes, pos, n) ==
    SubSeq(bytes, pos + 1, IF pos + n > Len(bytes) THEN Len(bytes) ELSE pos + n)

\* A read loop that stops after the first chunk.
checksum_loop_first_chunk_only(bytes, pos, state) ==
    sha256_update(state, FileRead(bytes, pos, ChunkSize))

\* calculate_checksum, "for chunk in iter(lambda: f.read(4096), b'')": the
\* hash state after the chunks from position pos on.
RECURSIVE checksum_loop(_, _, _)
checksum_loop(bytes, pos, state) ==
    LET chunk == FileRead(bytes, pos, ChunkSize) IN
    IF chunk = <<>> THEN state
    ELSE checksum_loop(bytes, pos + Len(chunk), sha256_update(state, chunk))

\* SidecarBuilder.calculate_checksum
calculate_checksum(bytes) == hexdigest(checksum_loop(bytes, 0, HashInit))

\* The keys of the manifest create_manifest builds.
ManifestKeys == {"binary_name", "platform", "size_bytes", "sha256", "build_timestamp"}

\* SidecarBuilder.create_manifest, the manifest dictionary.
create_manifest_dict(h, bytes, timestamp) ==
    [k \in ManifestKeys |->
        CASE k = "binary_name" ->
               BinaryName(get_platform_info(h).target, get_platform_info(h).extension)
          [] k = "platform"        -> get_platform_info(h)
          [] k = "size_bytes"      -> Len(bytes)
          [] k = "sha256"          -> calculate_checksum(bytes)
          [] OTHER                 -> timestamp]

\* build_timestamp: the output of date, "" when date printed nothing, and
\* "unknown" on Windows, where date is not run.
Timestamps(h, o) ==
    IF h.system = "windows" THEN {"unknown"}
    ELSE IF o = "ok" THEN {"2024-01-01T00:00:00Z", "2024-01-02T00:00:00Z"}
    ELSE {""}

\* A manifest left at the manifest path by an earlier run or by a mock
\* generator.
OldManifests(h) ==
    { [k \in ManifestKeys \cup {"is_mock"} |->
         CASE k = "binary_name" ->
                BinaryName(get_platform_info(h).target, get_platform_info(h).extension)
           [] k = "platform"        -> get_platform_info(h)
           [] k = "size_bytes"      -> 0
           [] k = "sha256"          -> hexdigest(HashInit)
           [] k = "is_mock"         -> "true"
           [] OTHER                 -> "mock-build"] }

NoManifest == [k \in {} |-> ""]

\* create_manifest(binary_path): the manifest is computed from the bytes of
\* the binary and json.dump writes it to a file opened with "w"; date is run
\* without a timeout and without a check.
MW_create_manifest ==
    \E o \in Outcomes :
        LET r == SubprocessRun(o, FALSE, FALSE) IN
        /\ mw_pc = "ready"
        /\ Len(mw_written) < MaxRuns
        /\ IF host.system # "windows" /\ r \in {"blocks", "FileNotFoundError"}
           THEN /\ mw_pc' = (IF r = "blocks" THEN "blocked" ELSE "raised")
                /\ UNCHANGED <<mw_manifest, mw_written>>
           ELSE \E timestamp \in Timestamps(host, o) :
                  LET manifest == create_manifest_dict(host, mw_bytes, timestamp) IN
                  /\ mw_manifest' = manifest
                  /\ mw_written' = Append(mw_written,
                                          [bytes |-> mw_bytes, manifest |-> manifest])
                  /\ mw_pc' = mw_pc
        /\ log' = IF host.system = "windows" THEN log ELSE Append(log, Cmd("date -u", o))
        /\ UNCHANGED <<envVars, fs, sbVars, ppVars, pbVars, msVars, ssVars, vrVars, testVars,
                       exit_code, mw_bytes>>

\* Another build replaces the binary.
MW_rebuild_binary ==
    \E bytes \in ByteStrings(MaxBytes) :
        /\ mw_pc = "ready"
        /\ Len(mw_written) < MaxRuns
        /\ bytes # mw_bytes
        /\ mw_bytes' = bytes
        /\ UNCHANGED <<envVars, fs, log, sbVars, ppVars, pbVars, msVars, ssVars, vrVars, testVars,
                       exit_code, mw_pc, mw_manifest, mw_written>>

InitMW ==
    /\ host \in { h \in Hosts : h.system \in {"linux", "windows"}
                               /\ h.maxsize = MaxSize64 /\ h.machine # "aarch64" }
    /\ config = DefaultConfig
    /\ script = "build-sidecars" /\ exit_code = "running"
    /\ fs = [p \in {} |-> Content("binary", FALSE, "", "old")]
    /\ log = <<>>
    /\ SBInit("idle")
    /\ PPIdle
    /\ PBIdle
    /\ MSIdle
    /\ SSIdle
    /\ VRIdle
    /\ TestsIdle
    /\ mw_pc = "ready"
    /\ mw_bytes \in ByteStrings(MaxBytes)
    /\ mw_manifest \in {NoManifest} \cup OldManifests(host)
    /\ mw_written = <<>>

NextMW ==
    \/ MW_create_manifest
    \/ MW_rebuild_binary

SpecMW == InitMW /\ [][NextMW]_vars

(***************************************************************************)
(* scripts/test-isolation.py: IsolationTester.                             *)
(***************************************************************************)

\* IsolationTester.run_all_tests, tests
ITTests ==
    <<"check_system_gytmdl", "check_system_gytmdl_config", "test_gui_app_directories",
      "test_environment_isolation", "test_sidecar_binary_isolation",
      "test_config_file_isolation", "simulate_concurrent_usage">>

ITSuccessor(test) ==
    IF \E i \in 1..(Len(ITTests) - 1) : ITTests[i] = test
    THEN ITTests[(CHOOSE i \in 1..(Len(ITTests) - 1) : ITTests[i] = test) + 1]
    ELSE "cleanup"

\* IsolationTester._get_gui_app_directories: the keys, in order.
GuiDirTypes == <<"config", "cache", "data">>

\* base / "gytmdl-gui" / dir_type
GuiDir(d) == PathOf("gytmdl-gui", <<d>>)

\* The directory a file of a GUI directory is in.
GuiInside(d) ==
    CASE d = "config" -> "gytmdl-gui/config"
      [] d = "cache"  -> "gytmdl-gui/cache"
      [] OTHER        -> "gytmdl-gui/data"

\* config_dir / "gytmdl.conf"
GuiConfigFile == PathOf(GuiInside("config"), <<"gytmdl", "conf">>)

\* A file the application keeps in its data directory.
GuiDataFile == PathOf(GuiInside("data"), <<"library", "db">>)

\* The GUI directories before the run: any of the three may be there already,
\* left by the installed application, the configuration directory with the
\* user's gytmdl.conf and the data directory with the user's data.
GuiInitialFs ==
    { [p \in { GuiDir(d) : d \in S }
             \cup (IF "config" \in S THEN {GuiConfigFile} ELSE {})
             \cup (IF "data" \in S THEN {GuiDataFile} ELSE {})
         |-> Content(IF p \in { GuiDir(d) : d \in S } THEN "directory" ELSE "file",
                     FALSE, "", "user")] :
      S \in SUBSET {"config", "cache", "data"} }

\* What the isolation tests find on the machine, and the cleanup option of
\* run_all_tests; before is the file system when the run started.
ITEnvs ==
    [ system_configs : BOOLEAN,
      mkdir          : {"ok", "denied"},
      sidecars       : {"nodir", "empty", "some"},
      cleanup        : BOOLEAN,
      before         : GuiInitialFs ]

\* dir_path.mkdir(parents=True, exist_ok=True): a directory that is there is
\* left as it is.
Mkdir(f, p) ==
    IF Exists(f, p) THEN f ELSE WriteFile(f, p, Content("directory", FALSE, "", "test"))

\* shutil.rmtree(dir_path): the directory and everything in it.
Rmtree(f, d) == [q \in { p \in DOMAIN f : p # GuiDir(d) /\ p.dir # GuiInside(d) } |-> f[q]]

\* IsolationTester.check_system_gytmdl with the outcome of gytmdl --version.
IsolationTester_check_system_gytmdl(o) ==
    [ret |-> IF o = "ok" THEN "true" ELSE "false",
     results |-> <<Tuple("System gytmdl available", "", o = "ok")>>]

\* The first entry of tests' second test: check_system_gytmdl_config() is not
\* None.
IsolationTester_check_system_gytmdl_config(env, available) ==
    IF ~available THEN [ret |-> "false", results |-> <<>>]
    ELSE [ret |-> "true",
          results |-> <<Tuple("System config found", "", env.system_configs)>>]

\* IsolationTester.test_gui_app_directories: the tuples and the file system
\* after the loop over the first n directories.
RECURSIVE gui_dirs_loop(_, _, _)
gui_dirs_loop(env, f, n) ==
    IF n = 0 THEN [results |-> <<>>, fs |-> f]
    ELSE LET before == gui_dirs_loop(env, f, n - 1)
             p      == GuiDir(GuiDirTypes[n])
             made   == Exists(before.fs, p) \/ env.mkdir = "ok"
         IN  [results |-> Append(before.results, Tuple("GUI directory", GuiDirTypes[n], made)),
              fs |-> IF made THEN Mkdir(before.fs, p) ELSE before.fs]

IsolationTester_test_gui_app_directories(env, f) ==
    LET r == gui_dirs_loop(env, f, Len(GuiDirTypes)) IN
    [ret |-> IF AllPassed(r.results) THEN "true" ELSE "false", results |-> r.results,
     fs |-> r.fs]

\* isolation_env_vars: five variables, and three more off Windows.
IsolationEnvVars(h) ==
    <<"GYTMDL_CONFIG_DIR", "GYTMDL_CACHE_DIR", "GYTMDL_DATA_DIR", "GYTMDL_NO_SYSTEM_CONFIG",
      "GYTMDL_GUI_MODE">>
    \o (IF h.system # "windows"
        THEN <<"XDG_CONFIG_HOME", "XDG_CACHE_HOME", "XDG_DATA_HOME">> ELSE <<>>)

\* IsolationTester.test_environment_isolation
IsolationTester_test_environment_isolation(h) ==
    LET body(v) == <<Tuple("Environment var", v, TRUE)>> IN
    [ret |-> "true", results |-> ForEach(IsolationEnvVars(h), body)]

\* IsolationTester.test_sidecar_binary_isolation
IsolationTester_test_sidecar_binary_isolation(env) ==
    CASE env.sidecars = "nodir" ->
           [ret |-> "false", results |-> <<Tuple("Sidecars directory", "", FALSE)>>]
      [] env.sidecars = "empty" ->
           [ret |-> "true", results |-> <<Tuple("Sidecars directory", "", TRUE),
                                          Tuple("Sidecar binaries found", "", FALSE)>>]
      [] OTHER ->
           [ret |-> "true", results |-> <<Tuple("Sidecars directory", "", TRUE),
                                          Tuple("Sidecar binaries found", "", TRUE),
                                          Tuple("  Sidecar binary", "gytmdl", TRUE)>>]

\* IsolationTester.test_config_file_isolation: write_text replaces whatever
\* gytmdl.conf the configuration directory holds.
IsolationTester_test_config_file_isolation(env, f) ==
    IF ~Exists(f, GuiDir("config")) /\ env.mkdir = "denied"
    THEN [ret |-> "false", results |-> <<Tuple("GUI config file creation", "", FALSE)>>,
          fs |-> f]
    ELSE [ret |-> "true",
          results |-> <<Tuple("GUI config file creation", "", TRUE),
                        Tuple("GUI config file content", "", TRUE)>>,
          fs |-> WriteFile(Mkdir(f, GuiDir("config")), GuiConfigFile,
                           Content("file", FALSE, "", "test"))]

\* IsolationTester.simulate_concurrent_usage with the outcome of gytmdl --help.
IsolationTester_simulate_concurrent_usage(available, f, o) ==
    CASE ~available ->
           [ret |-> "false", results |-> <<Tuple("Concurrent usage test", "", FALSE)>>]
      [] o # "ok" ->
           [ret |-> "false", results |-> <<Tuple("System gytmdl still works", "", FALSE)>>]
      [] OTHER ->
           [ret |-> "true",
            results |-> <<Tuple("System gytmdl still works", "", TRUE),
                          Tuple("GUI directories don't interfere", "",
                                \E d \in {"config", "cache", "data"} : Exists(f, GuiDir(d)))>>]

\* IsolationTester.cleanup_test_files: every GUI directory that exists is
\* removed with shutil.rmtree (its path always contains "gytmdl-gui").
RECURSIVE cleanup_test_files(_, _, _)
cleanup_test_files(env, f, n) ==
    IF n = 0 THEN [results |-> <<>>, fs |-> f]
    ELSE LET before == cleanup_test_files(env, f, n - 1)
             d      == GuiDirTypes[n]
         IN  IF Exists(before.fs, GuiDir(d))
             THEN [results |-> Append(before.results, Tuple("Cleanup directory", d, TRUE)),
                   fs |-> Rmtree(before.fs, d)]
             ELSE before

\* One test of run_all_tests has returned ret after appending results.
ITStep(test, r, f, cmds, available) ==
    /\ script = "test-isolation"
    /\ tests_pc = test
    /\ tests_trace' = Append(tests_trace, [step |-> test, ret |-> r.ret])
    /\ test_results' = test_results \o r.results
    /\ all_passed' = run_validation_all_passed(all_passed, r.ret)
    /\ system_gytmdl_available' = available
    /\ tests_pc' = ITSuccessor(test)
    /\ fs' = f
    /\ log' = log \o cmds
    /\ UNCHANGED <<envVars, sbVars, ppVars, pbVars, msVars, ssVars, vrVars, mwVars,
                   tests_env, failed_tests, tests_result, exit_code>>

IT_check_system_gytmdl ==
    \E o \in Outcomes :
        /\ tests_pc = "check_system_gytmdl"
        /\ ITStep("check_system_gytmdl", IsolationTester_check_system_gytmdl(o), fs,
                  <<Cmd("gytmdl --version", o)>>, o = "ok")

IT_check_system_gytmdl_config ==
    /\ tests_pc = "check_system_gytmdl_config"
    /\ ITStep("check_system_gytmdl_config",
              IsolationTester_check_system_gytmdl_config(tests_env, system_gytmdl_available),
              fs, <<>>, system_gytmdl_available)

IT_test_gui_app_directories ==
    LET r == IsolationTester_test_gui_app_directories(tests_env, fs) IN
    /\ tests_pc = "test_gui_app_directories"
    /\ ITStep("test_gui_app_directories", r, r.fs, <<>>, system_gytmdl_available)

IT_test_environment_isolation ==
    /\ tests_pc = "test_environment_isolation"
    /\ ITStep("test_environment_isolation", IsolationTester_test_environment_isolation(host),
              fs, <<>>, system_gytmdl_available)

IT_test_sidecar_binary_isolation ==
    /\ tests_pc = "test_sidecar_binary_isolation"
    /\ ITStep("test_sidecar_binary_isolation",
              IsolationTester_test_sidecar_binary_isolation(tests_env), fs, <<>>,
              system_gytmdl_available)

IT_test_config_file_isolation ==
    LET r == IsolationTester_test_config_file_isolation(tests_env, fs) IN
    /\ tests_pc = "test_config_file_isolation"
    /\ ITStep("test_config_file_isolation", r, r.fs, <<>>, system_gytmdl_available)

IT_simulate_concurrent_usage ==
    \E o \in Outcomes :
        /\ system_gytmdl_available \/ o = "ok"
        /\ ITStep("simulate_concurrent_usage",
                  IsolationTester_simulate_concurrent_usage(system_gytmdl_available, fs, o),
                  fs, IF system_gytmdl_available THEN <<Cmd("gytmdl --help", o)>> ELSE <<>>,
                  system_gytmdl_available)

\* run_all_tests: "if cleanup: self.cleanup_test_files()".
IT_cleanup ==
    LET r == cleanup_test_files(tests_env, fs, Len(GuiDirTypes)) IN
    /\ script = "test-isolation"
    /\ tests_pc = "cleanup"
    /\ tests_pc' = "report"
    /\ fs' = IF tests_env.cleanup THEN r.fs ELSE fs
    /\ test_results' = IF tests_env.cleanup THEN test_results \o r.results ELSE test_results
    /\ UNCHANGED <<envVars, log, sbVars, ppVars, pbVars, msVars, ssVars, vrVars, mwVars,
                   tests_env, tests_trace, failed_tests, all_passed,
                   system_gytmdl_available, tests_result, exit_code>>

\* run_all_tests after the cleanup: the summary is printed and all_passed is
\* returned.
IT_return ==
    /\ script = "test-isolation"
    /\ tests_pc = "report"
    /\ tests_pc' = "done"
    /\ tests_result' = IF all_passed THEN "true" ELSE "false"
    /\ UNCHANGED <<envVars, fs, log, sbVars, ppVars, pbVars, msVars, ssVars, vrVars, mwVars,
                   tests_env, tests_trace, test_results, failed_tests, all_passed,
                   system_gytmdl_available, exit_code>>

\* test-isolation.py started from the command line, with or without
\* --no-cleanup.
InitIT ==
    /\ host \in { h \in Hosts : h.system \in {"linux", "windows"} /\ h.maxsize = MaxSize64
                               /\ h.machine \in {"x86_64", "amd64"} }
    /\ config = DefaultConfig
    /\ script = "test-isolation" /\ exit_code = "running"
    /\ tests_env \in ITEnvs
    /\ fs = tests_env.before
    /\ log = <<>>
    /\ SBInit("idle")
    /\ PPIdle
    /\ PBIdle
    /\ MSIdle
    /\ SSIdle
    /\ VRIdle
    /\ MWIdle
    /\ tests_pc = ITTests[1] /\ tests_trace = <<>> /\ test_results = <<>>
    /\ failed_tests = <<>> /\ all_passed = TRUE /\ system_gytmdl_available = FALSE
    /\ tests_result = "none"

NextIT ==
    \/ IT_check_system_gytmdl
    \/ IT_check_system_gytmdl_config
    \/ IT_test_gui_app_directories
    \/ IT_test_environment_isolation
    \/ IT_test_sidecar_binary_isolation
    \/ IT_test_config_file_isolation
    \/ IT_simulate_concurrent_usage
    \/ IT_cleanup
    \/ IT_return

SpecIT == InitIT /\ [][NextIT]_vars

(***************************************************************************)
(* scripts/test-packaging.py: PackagingTestRunner.                         *)
(***************************************************************************)

\* PackagingTestRunner.run_all_tests, tests
PTTests ==
    <<"Project Structure", "Tauri Config Validity", "Build Config Validity",
      "Package.json Validity", "Cargo.toml Validity", "Build Scripts Exist",
      "Installer Configs Exist", "GitHub Actions Workflow", "Rust Compilation",
      "Frontend Build", "Sidecar Build Script", "Packaging Script">>

PTSuccessor(test) ==
    IF \E i \in 1..(Len(PTTests) - 1) : PTTests[i] = test
    THEN PTTests[(CHOOSE i \in 1..(Len(PTTests) - 1) : PTTests[i] = test) + 1]
    ELSE "report"

\* At most this many tests of one run fail or raise.
MaxFailedTests == 2

\* PackagingTestRunner.run_test: what is recorded for a test that returned
\* a true value, returned a false one, or raised.
PackagingTestRunner_run_test(test_name, ret) ==
    [ret |-> IF ret = "true" THEN "true" ELSE "false",
     result |-> [label |-> test_name, item |-> "", passed |-> ret = "true",
                 message |-> CASE ret = "true"  -> "None"
                               [] ret = "false" -> "Test returned False"
                               [] OTHER         -> "str(e)"],
     failed |-> IF ret = "true" THEN <<>> ELSE <<test_name>>]

\* run_all_tests, the loop body: run_test on the next test, which returns a
\* true or a false value or raises, as the project and its tools make it.
PT_run_test ==
    \E ret \in {"true", "false", "raised"} :
        LET r == PackagingTestRunner_run_test(tests_pc, ret) IN
        /\ script = "test-packaging"
        /\ \E i \in DOMAIN PTTests : PTTests[i] = tests_pc
        /\ ret = "true" \/ Len(failed_tests) < MaxFailedTests
        /\ tests_trace' = Append(tests_trace, [step |-> tests_pc, ret |-> ret])
        /\ test_results' = Append(test_results, r.result)
        /\ failed_tests' = failed_tests \o r.failed
        /\ tests_pc' = PTSuccessor(tests_pc)
        /\ UNCHANGED <<envVars, fs, log, sbVars, ppVars, pbVars, msVars, ssVars, vrVars,
                       mwVars, tests_env, all_passed, system_gytmdl_available,
                       tests_result, exit_code>>

\* run_all_tests after the loop: "if self.failed_tests: return False".
PT_return ==
    /\ script = "test-packaging"
    /\ tests_pc = "report"
    /\ tests_pc' = "done"
    /\ tests_result' = IF failed_tests # <<>> THEN "false" ELSE "true"
    /\ UNCHANGED <<envVars, fs, log, sbVars, ppVars, pbVars, msVars, ssVars, vrVars, mwVars,
                   tests_env, tests_trace, test_results, failed_tests, all_passed,
                   system_gytmdl_available, exit_code>>

\* test-packaging.py started from the command line.
InitPT ==
    /\ host = [system |-> "linux", machine |-> "x86_64", maxsize |-> MaxSize64]
    /\ config = DefaultConfig
    /\ script = "test-packaging" /\ exit_code = "running"
    /\ fs = [p \in {} |-> Content("binary", FALSE, "", "old")]
    /\ log = <<>>
    /\ SBInit("idle")
    /\ PPIdle
    /\ PBIdle
    /\ MSIdle
    /\ SSIdle
    /\ VRIdle
    /\ MWIdle
    /\ tests_env = <<>>
    /\ tests_pc = PTTests[1] /\ tests_trace = <<>> /\ test_results = <<>>
    /\ failed_tests = <<>> /\ all_passed = TRUE /\ system_gytmdl_available = FALSE
    /\ tests_result = "none"

(***************************************************************************)
(* The three check-list runners: ReleasePipelineValidator.run_validation,  *)
(* IsolationTester.run_all_tests and PackagingTestRunner.run_all_tests.    *)
(***************************************************************************)

InitRunners == InitVR \/ InitIT \/ InitPT

NextRunners ==
    \/ VR_check
    \/ VR_return
    \/ VR_main_exit
    \/ IT_check_system_gytmdl
    \/ IT_check_system_gytmdl_config
    \/ IT_test_gui_app_directories
    \/ IT_test_environment_isolation
    \/ IT_test_sidecar_binary_isolation
    \/ IT_test_config_file_isolation
    \/ IT_simulate_concurrent_usage
    \/ IT_cleanup
    \/ IT_return
    \/ PT_run_test
    \/ PT_return

SpecRunners == InitRunners /\ [][NextRunners]_vars

(***************************************************************************)
(* scripts/test-tauri-config.py and scripts/validate-production-build.py.  *)
(***************************************************************************)

\* What test_tauri_config finds: tauri.conf.json, the number of its
\* externalBin entries, whether each of them is in the sidecars directory,
\* and the platform sections of its bundle section.
TCEnvs ==
    [ config        : {"present", "missing"},
      external_bins : {0, 1, 6},
      binaries      : {"all", "one_missing"},
      sections      : SUBSET {"windows", "macOS", "linux"} ]

\* The warning printed for every platform of the list without a section.
MissingSections(platforms, sections) ==
    LET body(p) == IF p \in sections THEN <<>>
                   ELSE <<[step |-> "bundle config missing", ret |-> p]>>
    IN  ForEach(platforms, body)

\* A test that fails when a platform section is missing.
test_tauri_config_requires_sections(env) ==
    CASE env.config = "missing"       -> [ret |-> "false", warnings |-> <<>>]
      [] env.external_bins = 0        -> [ret |-> "false", warnings |-> <<>>]
      [] env.binaries = "one_missing" -> [ret |-> "false", warnings |-> <<>>]
      [] OTHER ->
           [ret |-> IF MissingSections(<<"windows", "macOS", "linux">>, env.sections) = <<>>
                    THEN "true" ELSE "false",
            warnings |-> MissingSections(<<"windows", "macOS", "linux">>, env.sections)]

\* test_tauri_config: the value returned and the warnings printed.
test_tauri_config(env) ==
    CASE env.config = "missing"       -> [ret |-> "false", warnings |-> <<>>]
      [] env.external_bins = 0        -> [ret |-> "false", warnings |-> <<>>]
      [] env.binaries = "one_missing" -> [ret |-> "false", warnings |-> <<>>]
      [] OTHER ->
           [ret |-> "true",
            warnings |-> MissingSections(<<"windows", "macOS", "linux">>, env.sections)]

\* validate_production_build, dependencies
VPDependencies == <<"node", "npm", "python3", "pyinstaller">>

\* The outcomes of the four --version runs: at most one of them is not "ok".
VPDependencyOutcomes ==
    { [d \in {VPDependencies[i] : i \in DOMAIN VPDependencies} |->
          IF d = bad THEN o ELSE "ok"] :
      bad \in {VPDependencies[i] : i \in DOMAIN VPDependencies}, o \in Outcomes }

\* What validate_production_build finds: the gytmdl source, the sidecars,
\* tauri.conf.json, build-config.json with the platform sections of its
\* bundle section, the frontend build and the current platform's sidecar.
VPEnvs ==
    [ gytmdl          : {"importable", "import_issue", "missing"},
      sidecars        : {"all", "some"},
      tauri           : {"present", "missing"},
      build_config    : {"present", "missing"},
      sections        : SUBSET {"windows", "macos", "linux"},
      frontend        : {"ready", "incomplete", "missing"},
      current_sidecar : BOOLEAN ]

\* An entry of validation_results: the mark it starts with and its text.
Result(mark, text) == [mark |-> mark, text |-> text]

\* validate_production_build, steps 1 to 7: validation_results.
validation_results(env, outcome) ==
    LET dep(d) == <<Result(IF outcome[d] = "ok" THEN "ok" ELSE "error", d)>> IN
    ForEach(VPDependencies, dep)
    \o << CASE env.gytmdl = "importable"   -> Result("ok", "gytmdl source ready")
            [] env.gytmdl = "import_issue" -> Result("warning", "gytmdl import issue")
            [] OTHER                       -> Result("error", "gytmdl source missing"),
          IF env.sidecars = "all" THEN Result("ok", "All sidecar binaries present")
          ELSE Result("warning", "sidecar binaries"),
          IF env.tauri = "present" THEN Result("ok", "Tauri configuration valid")
          ELSE Result("error", "Tauri config missing"),
          IF env.build_config = "present" THEN Result("ok", "Build configuration valid")
          ELSE Result("error", "Build config missing"),
          CASE env.frontend = "ready"      -> Result("ok", "Frontend build ready")
            [] env.frontend = "incomplete" -> Result("warning", "Frontend build incomplete")
            [] OTHER                       -> Result("error", "Frontend not built"),
          IF env.current_sidecar THEN Result("ok", "Current platform sidecar ready")
          ELSE Result("error", "Current platform sidecar missing") >>

\* validate_production_build, step 8: error_count
error_count(results) == Cardinality({k \in DOMAIN results : results[k].mark = "error"})

\* validate_production_build: the value returned, validation_results and the
\* warnings printed about platform sections.
validate_production_build(env, outcome) ==
    LET results == validation_results(env, outcome) IN
    [ret |-> IF error_count(results) = 0 THEN "true" ELSE "false",
     results |-> results,
     warnings |-> IF env.build_config = "present"
                  THEN MissingSections(<<"windows", "macos", "linux">>, env.sections)
                  ELSE <<>>]

\* test-tauri-config.py, test_tauri_config()
TC_test_tauri_config ==
    LET r == test_tauri_config(tests_env) IN
    /\ script = "test-tauri-config"
    /\ tests_pc = "run"
    /\ tests_pc' = "done"
    /\ tests_trace' = r.warnings
    /\ tests_result' = r.ret
    /\ UNCHANGED <<envVars, fs, log, sbVars, ppVars, pbVars, msVars, ssVars, vrVars, mwVars,
                   tests_env, test_results, failed_tests, all_passed,
                   system_gytmdl_available, exit_code>>

\* validate-production-build.py, validate_production_build(): the --version
\* runs have no timeout, so one that never returns blocks the script.
VP_validate_production_build ==
    \E outcome \in VPDependencyOutcomes :
        LET r == validate_production_build(tests_env, outcome)
            blocked == \E d \in DOMAIN outcome : outcome[d] = "hang"
        IN  /\ script = "validate-production-build"
            /\ tests_pc = "run"
            /\ tests_pc' = IF blocked THEN "blocked" ELSE "done"
            /\ tests_trace' = IF blocked THEN tests_trace ELSE r.warnings
            /\ test_results' = IF blocked THEN test_results ELSE r.results
            /\ tests_result' = IF blocked THEN tests_result ELSE r.ret
            /\ log' = log \o [i \in DOMAIN VPDependencies |->
                                 Cmd(VPDependencies[i], outcome[VPDependencies[i]])]
            /\ UNCHANGED <<envVars, fs, sbVars, ppVars, pbVars, msVars, ssVars, vrVars, mwVars,
                           tests_env, failed_tests, all_passed, system_gytmdl_available,
                           exit_code>>

\* One of the two scripts is started from the command line.
InitCfg ==
    /\ host = [system |-> "linux", machine |-> "x86_64", maxsize |-> MaxSize64]
    /\ config = DefaultConfig
    /\ script \in {"test-tauri-config", "validate-production-build"}
    /\ exit_code = "running"
    /\ tests_env \in (IF script = "test-tauri-config" THEN TCEnvs ELSE VPEnvs)
    /\ fs = [p \in {} |-> Content("binary", FALSE, "", "old")]
    /\ log = <<>>
    /\ SBInit("idle")
    /\ PPIdle
    /\ PBIdle
    /\ MSIdle
    /\ SSIdle
    /\ VRIdle
    /\ MWIdle
    /\ tests_pc = "run" /\ tests_trace = <<>> /\ test_results = <<>>
    /\ failed_tests = <<>> /\ all_passed = TRUE /\ system_gytmdl_available = FALSE
    /\ tests_result = "none"

NextCfg ==
    \/ TC_test_tauri_config
    \/ VP_validate_production_build

SpecCfg == InitCfg /\ [][NextCfg]_vars

(***************************************************************************)
(* scripts/create-mock-gytmdl.py: the name of the mock binary.             *)
(***************************************************************************)

\* create_mock_binary, binary_name: sys.platform is "win32", "darwin" or
\* starts with "linux" where platform.system() is Windows, Darwin or Linux.
create_mock_binary_name(h) ==
    CASE h.system = "windows" ->
           IF Has64(h.maxsize) THEN BinaryName("x86_64-pc-windows-msvc", ".exe")
           ELSE SimpleName(".exe")
      [] h.system = "darwin" ->
           IF h.machine = "arm64" THEN BinaryName("aarch64-apple-darwin", "")
           ELSE BinaryName("x86_64-apple-darwin", "")
      [] h.system = "linux" ->
           IF h.machine = "x86_64" THEN BinaryName("x86_64-unknown-linux-gnu", "")
           ELSE SimpleName("")
      [] OTHER -> SimpleName("")

(***************************************************************************)
(* Properties.                                                             *)
(***************************************************************************)

Ran(trace, step) == \E i \in DOMAIN trace : trace[i].step = step

Returned(trace, step, ret) ==
    \E i \in DOMAIN trace : trace[i].step = step /\ trace[i].ret = ret

Started(cmd) == \E k \in DOMAIN log : log[k].cmd = cmd

StartedWith(cmd, outcome) ==
    \E k \in DOMAIN log : log[k].cmd = cmd /\ log[k].outcome = outcome

CanonicalBinary ==
    PathOf(SidecarDistDir, BinaryName(get_platform_info(host).target,
                                      get_platform_info(host).extension))

SimpleBinary == PathOf(SidecarDistDir, SimpleName(get_platform_info(host).extension))

BuiltManifest == PathOf(SidecarDistDir, WithSuffixJson(CanonicalBinary.name))

PyInstallerCmd == "pyinstaller --clean pyinstaller-config.spec"

\* C6: validate_binary returns, and returns success exactly when the binary run
\* with --version exited 0 within the time limit: a non-zero exit, a timeout
\* and a failure to launch are each a returned failure; the step never raises
\* and never waits forever.
C6_ValidateBinaryResult ==
    \A i \in DOMAIN sb_trace :
        sb_trace[i].step = "validate_binary" =>
            /\ sb_trace[i].ret \in {"true", "false"}
            /\ Started("gytmdl --version")
            /\ sb_trace[i].ret = "true" <=> StartedWith("gytmdl --version", "ok")

\* C6 witness: the binary never returned from its version probe and
\* validate_binary returned failure.
C6_Witness ==
    /\ StartedWith("gytmdl --version", "hang")
    /\ Returned(sb_trace, "validate_binary", "false")

\* C7: when the freezing tool exits non-zero, or has ended and left no artifact
\* in the dist directory under the canonical or the unqualified name,
\* build_binary returns failure and build returns failure with no validation
\* run and no manifest written.
C7_BuildBinaryFailure ==
    (\/ StartedWith(PyInstallerCmd, "nonzero")
     \/ /\ Started(PyInstallerCmd)
        /\ ~StartedWith(PyInstallerCmd, "hang")
        /\ ~Exists(fs, CanonicalBinary)
        /\ ~Exists(fs, SimpleBinary))
    => /\ Returned(sb_trace, "build_binary", "false")
       /\ sb_binary = NoPath
       /\ sb_pc = "done"
       /\ sb_result = "false"
       /\ ~Ran(sb_trace, "validate_binary")
       /\ ~Started("gytmdl --version")
       /\ ~Ran(sb_trace, "create_manifest")
       /\ ~Exists(fs, BuiltManifest)

\* C7 witness: the freezing tool exited non-zero while an artifact of an earlier
\* build was in the dist directory, and the build returned failure.
C7_Witness ==
    /\ StartedWith(PyInstallerCmd, "nonzero")
    /\ Exists(fs, CanonicalBinary)
    /\ sb_result = "false"

\* C8: when build_binary returned a path, it is the canonical path and a file
\* is there; if only the unqualified name was in the dist directory when the
\* tool had exited, that file is now at the canonical name and no longer at the
\* unqualified one.
C8_CanonicalArtifact ==
    sb_binary # NoPath =>
        /\ sb_binary = CanonicalBinary
        /\ Exists(fs, CanonicalBinary)
        /\ sb_found = {"simple"} => ~Exists(fs, SimpleBinary)

\* C8 witness: the tool left only the unqualified name and build_binary
\* returned a path.
C8_Witness == sb_binary # NoPath /\ sb_found = {"simple"}

\* C9: the steps of build run in the order dependency check, dependency
\* install, binary build, validation, manifest write, each after its
\* predecessor returned success; the manifest is written only after the binary
\* was produced and validated; build returns success iff all five succeeded.
C9_BuildOrder ==
    /\ Len(sb_trace) <= Len(SBOrder)
    /\ \A i \in DOMAIN sb_trace :
           /\ sb_trace[i].step = SBOrder[i]
           /\ i > 1 => sb_trace[i - 1].ret = "true"
    /\ Exists(fs, BuiltManifest) =>
           /\ Returned(sb_trace, "build_binary", "true")
           /\ Returned(sb_trace, "validate_binary", "true")
           /\ Returned(sb_trace, "create_manifest", "true")
           /\ Exists(fs, CanonicalBinary)
    /\ sb_result = "true" <=>
           /\ Len(sb_trace) = Len(SBOrder)
           /\ \A i \in DOMAIN sb_trace : sb_trace[i].ret = "true"
    /\ sb_pc = "done" <=> sb_result # "none"

\* C9 witness: a build that returned success with its manifest on disk.
C9_Witness == sb_result = "true" /\ Exists(fs, BuiltManifest)


\* The stage of run_full_pipeline that starts a command, by its place in the
\* order: the probes in 1, build-sidecars.py and its own commands in 2, npm in
\* 3, cargo in 4, the signing and notarization tools in 5.
StageOfCmd(cmd) ==
    CASE cmd \in {"node --version", "npm --version", "cargo --version",
                  "python3 --version", "signtool", "codesign --version"} -> 1
      [] cmd \in {"npm install", "npm run build"} -> 3
      [] cmd = "cargo tauri build" -> 4
      [] cmd \in {"signtool sign", "codesign --sign", "ditto -c -k",
                  "xcrun notarytool submit", "xcrun stapler staple"} -> 5
      [] OTHER -> 2

InstallerOnDisk == \E q \in DOMAIN fs : q.dir = DistDir

\* C1: once one of the five steps (dependency check, sidecar build, frontend
\* build, Tauri build, signing) has returned failure, it is the last stage of
\* the run: no command of a later stage was started, no installer was copied,
\* no checksum file was written, and the run returned failure naming that step.
C1_StopAtFirstFailure ==
    \A i \in DOMAIN pp_calls :
        pp_calls[i].ret = "false" =>
            /\ i <= 5
            /\ i = Len(pp_calls)
            /\ \A k \in DOMAIN log : StageOfCmd(log[k].cmd) <= i
            /\ pp_installers = <<>>
            /\ ~InstallerOnDisk
            /\ ~pp_checksums.written
            /\ pp_pc = "done"
            /\ pp_result = "false"
            /\ pp_failed = pp_calls[i].step

\* C1 witness: the frontend build returned failure and the run returned failure.
C1_Witness ==
    /\ Returned(pp_calls, "Build frontend", "false")
    /\ pp_result = "false"

\* The order of the stages the specification gives for the pipeline.
C2_Order ==
    <<"Check dependencies", "Build sidecar binaries", "Build frontend",
      "Build Tauri app", "Sign binaries", "Create installers", "Generate checksums">>

\* C2: the stages start in the fixed order dependency check, sidecar build,
\* frontend build, Tauri build, signing, installer copy, checksum generation;
\* each starts only after its predecessor returned success, each at most once,
\* and no external command is started a second time.
C2_FixedStageOrder ==
    /\ Len(pp_calls) <= Len(C2_Order)
    /\ \A i \in DOMAIN pp_calls :
           /\ pp_calls[i].step = C2_Order[i]
           /\ i > 1 => pp_calls[i - 1].ret = "true"
    /\ \A k, l \in DOMAIN log :
           k < l => /\ StageOfCmd(log[k].cmd) <= StageOfCmd(log[l].cmd)
                    /\ log[k].cmd # log[l].cmd
    /\ \A k \in DOMAIN log :
           StageOfCmd(log[k].cmd) <= Len(pp_calls) + 1

\* C2 witness: a run in which all seven stages ran and that returned success.
C2_Witness == Len(pp_calls) = 7 /\ pp_result = "true"

\* C3: every stage turns every failure of its external command (non-zero exit,
\* executable not found, missing configuration field) into a returned failure:
\* no stage raises into run_full_pipeline.
C3_NoExceptionEscapesStage ==
    /\ \A i \in DOMAIN pp_calls : pp_calls[i].ret # "raised"
    /\ pp_result # "raised"

\* C4: every external command a stage starts completes or is abandoned after
\* a timeout, so the run never waits forever on a command that does not return.
C4_RunNeverWaitsForever ==
    /\ pp_pc # "blocked"
    /\ \A i \in DOMAIN pp_calls : pp_calls[i].ret # "blocked"

\* C5: once check_dependencies has run, every required tool was probed
\* whatever the earlier probes did, the missing list holds exactly the tools
\* whose probe did not exit 0 (non-zero exit, not found, timed out), and the
\* result is failure iff the missing list is not empty.
C5_EveryToolProbed ==
    \A i \in DOMAIN pp_calls :
        pp_calls[i].step = "Check dependencies" =>
            /\ \A j \in DOMAIN RequiredTools :
                   Started(RequiredTools[j] \o " --version")
            /\ { pp_missing[j] : j \in DOMAIN pp_missing }
                 = { RequiredTools[j] : j \in { n \in DOMAIN RequiredTools :
                       ~StartedWith(RequiredTools[n] \o " --version", "ok") } }
            /\ pp_calls[i].ret \in {"true", "false"}
            /\ pp_calls[i].ret = "false" <=> pp_missing # <<>>

\* The positions in pb_writes at which path was written.
WritesTo(path) == { k \in DOMAIN pb_writes : pb_writes[k].path = path }

\* C10: once create_mock_sidecars_for_other_platforms has run, every target
\* platform other than the current one has had exactly one placeholder and
\* exactly one manifest with is_mock = true written, nothing else was
\* written, nothing was written for the current platform, and the binary and
\* manifest of the preceding build are still the real ones.
C10_MocksOnlyForOtherPlatforms ==
    Ran(pb_calls, "Create mock sidecars for other platforms") =>
        LET current == ProductionBundleBuilder_get_platform_info(host)
            others  == { i \in DOMAIN TargetPlatforms :
                            TargetPlatforms[i].target # current.target }
            binary(t)   == SidecarPath(t.target, t.extension)
            manifest(t) == PathOf(SidecarsDir, AppendJson(BinaryName(t.target, t.extension)))
        IN  /\ \A i \in DOMAIN TargetPlatforms :
                 LET t == TargetPlatforms[i] IN
                 IF i \in others
                 THEN /\ Cardinality(WritesTo(binary(t))) = 1
                      /\ Cardinality(WritesTo(manifest(t))) = 1
                      /\ \A k \in WritesTo(binary(t)) :
                             pb_writes[k].content = Content("binary", TRUE, t.target, "mock")
                      /\ \A k \in WritesTo(manifest(t)) :
                             pb_writes[k].content = Content("manifest", TRUE, t.target, "mock")
                      /\ Exists(fs, binary(t)) /\ fs[binary(t)].is_mock
                      /\ Exists(fs, manifest(t)) /\ fs[manifest(t)].is_mock
                 ELSE /\ WritesTo(binary(t)) = {}
                      /\ WritesTo(manifest(t)) = {}
            /\ Len(pb_writes) = Cardinality(others) + Cardinality(others)
            /\ \A k \in DOMAIN pb_writes :
                 pb_writes[k].path \notin
                     { SidecarPath(current.target, current.extension),
                       PathOf(SidecarsDir,
                              WithSuffixJson(BinaryName(current.target, current.extension))),
                       CanonicalBinary, BuiltManifest }
            /\ Exists(fs, SidecarPath(current.target, current.extension))
            /\ ~fs[SidecarPath(current.target, current.extension)].is_mock
            /\ (sb_result = "true" =>
                  /\ Exists(fs, BuiltManifest) /\ ~fs[BuiltManifest].is_mock
                  /\ Exists(fs, CanonicalBinary) /\ ~fs[CanonicalBinary].is_mock)

\* The mock step has run after a build that produced and validated a real
\* binary and wrote its manifest, on a host whose target is a target platform.
C10_Witness ==
    /\ Returned(pb_calls, "Create mock sidecars for other platforms", "true")
    /\ IsTargetPlatform(ProductionBundleBuilder_get_platform_info(host).target)
    /\ sb_result = "true"
    /\ Exists(fs, BuiltManifest)
    /\ pb_writes # <<>>

\* C11: create-mock-sidecars.py writes nothing at the current platform's
\* sidecar path and nothing at its manifest path, so a file that was there
\* when the script started is still the one on disk.
C11_CurrentPlatformUntouched ==
    \A i \in DOMAIN MockScript_platforms :
        LET t == MockScript_platforms[i]
            binary   == SidecarPath(t.target, t.extension)
            manifest == PathOf(SidecarsDir, AppendJson(BinaryName(t.target, t.extension)))
        IN  t.target = MockScript_current_target(host) =>
              /\ \A k \in DOMAIN ms_writes : ms_writes[k].path \notin {binary, manifest}
              /\ (Exists(fs, binary) => ~fs[binary].is_mock)
              /\ (Exists(fs, manifest) => ~fs[manifest].is_mock)

\* C12: once the current-platform sidecar build and the mock step have both
\* succeeded, all six target platforms have a binary in the sidecars
\* directory; 'Verify sidecar detection', when it has run, has passed whatever
\* the version probe did, and the build has gone on to the frontend stage.
C12_DetectionPassesAfterMocks ==
    (/\ Returned(pb_calls, "Build sidecar for current platform", "true")
     /\ Returned(pb_calls, "Create mock sidecars for other platforms", "true")) =>
        /\ \A i \in DOMAIN TargetPlatforms :
               Exists(fs, SidecarPath(TargetPlatforms[i].target, TargetPlatforms[i].extension))
        /\ pb_pc # "Verify sidecar detection" =>
               /\ Returned(pb_calls, "Verify sidecar detection", "true")
               /\ \E o \in Outcomes : StartedWith("sidecar --version", o)
               /\ \/ pb_pc = "Build frontend"
                  \/ Ran(pb_calls, "Build frontend")

\* The version probe of the current platform's binary never returned by itself
\* and the build is at the frontend stage.
C12_Witness ==
    /\ Returned(pb_calls, "Create mock sidecars for other platforms", "true")
    /\ StartedWith("sidecar --version", "hang")
    /\ pb_pc = "Build frontend"

\* The files of the list given to generate_checksums that are on disk, in the
\* order of the list.
FilesOnDisk == SelectSeq(pp_installers, LAMBDA p : Exists(fs, p))

\* C13: checksums.txt holds exactly one line "<sha256>  <filename>" for each
\* file of the input list that exists, in the order of the list, no line for
\* a file that does not exist, and nothing else.
C13_OneLinePerExistingFile ==
    pp_checksums.written =>
        /\ Len(pp_checksums.lines) = Len(FilesOnDisk)
        /\ \A k \in DOMAIN pp_checksums.lines :
               /\ pp_checksums.lines[k].name = FilesOnDisk[k].name
               /\ pp_checksums.lines[k].checksum = Sha256(fs[FilesOnDisk[k]])

\* The list held a file that is on disk and, after it, one that is not.
C13_Witness ==
    /\ pp_checksums.written
    /\ pp_checksums.lines # <<>>
    /\ \E i, j \in DOMAIN pp_installers :
           i < j /\ ~Exists(fs, pp_installers[i]) /\ Exists(fs, pp_installers[j])

\* The six steps of the steps list of run_full_build.
PBSteps == { PBOrder[i] : i \in 1..(Len(PBOrder) - 2) }

\* The calls of generate_build_report in the run so far.
ReportCalls == { i \in DOMAIN pb_calls : pb_calls[i].step = "Generate build report" }

\* C14: build-report.json is written at most once in a run, only after all six
\* steps passed and installer discovery has run; a run that failed at a step
\* has written no report, and a run that returned success has written it once.
C14_ReportOnceAfterAllStages ==
    /\ Cardinality(ReportCalls) <= 1
    /\ pb_report.written =>
          /\ \A st \in PBSteps : Returned(pb_calls, st, "true")
          /\ Ran(pb_calls, "Create installers")
          /\ \A i \in ReportCalls : pb_calls[i].ret = "true" /\ i = Len(pb_calls)
          /\ Cardinality(ReportCalls) = 1
    /\ (\E i \in DOMAIN pb_calls : pb_calls[i].ret = "false") => ~pb_report.written
    /\ pb_result = "false" => ~pb_report.written
    /\ pb_result = "true" => pb_report.written

\* A run that found no installer has written the report and returned success.
C14_Witness ==
    /\ pb_report.written
    /\ Returned(pb_calls, "Create installers", "empty")
    /\ pb_result = "true"

\* cmd was started only after prev had been started and had exited zero.
OnlyAfterSuccessOf(cmd, prev) ==
    \A k \in DOMAIN log :
        log[k].cmd = cmd =>
            \E j \in 1..(k - 1) : log[j].cmd = prev /\ log[j].outcome = "ok"

\* The commands of macOS signing with notarization, in the order of the code.
MacSigningCmds ==
    <<"codesign --sign", "ditto -c -k", "xcrun notarytool submit", "xcrun stapler staple">>

\* C15: in macOS signing, codesign, the zip, the notarization submit and the
\* staple run in this order, each only after the one before it exited zero;
\* with notarization enabled signing returns success exactly when all four
\* exited zero; with notarization disabled submit and staple are not started
\* and signing returns success exactly when codesign exited zero.
C15_MacSigningSequence ==
    /\ \A i \in 2..Len(MacSigningCmds) :
           OnlyAfterSuccessOf(MacSigningCmds[i], MacSigningCmds[i - 1])
    /\ \A i \in DOMAIN MacSigningCmds :
           Cardinality({ k \in DOMAIN log : log[k].cmd = MacSigningCmds[i] }) <= 1
    /\ (Started("codesign --sign") /\ Ran(pp_calls, "Sign binaries")) =>
           IF config.notarize
           THEN Returned(pp_calls, "Sign binaries", "true") <=>
                    \A i \in DOMAIN MacSigningCmds : StartedWith(MacSigningCmds[i], "ok")
           ELSE /\ ~Started("ditto -c -k")
                /\ ~Started("xcrun notarytool submit")
                /\ ~Started("xcrun stapler staple")
                /\ Returned(pp_calls, "Sign binaries", "true") <=>
                       StartedWith("codesign --sign", "ok")

\* The submission was rejected after a successful signature and zip.
C15_Witness ==
    /\ StartedWith("codesign --sign", "ok")
    /\ StartedWith("ditto -c -k", "ok")
    /\ StartedWith("xcrun notarytool submit", "nonzero")
    /\ Returned(pp_calls, "Sign binaries", "false")

\* C16: once the temporary entry script has been created, a simple build that
\* has returned (with success, after a failed or timed-out PyInstaller run,
\* or without a binary) has removed the entry script and the build and spec
\* directories.
C16_CleanupOnEveryExit ==
    (ss_pc = "done" /\ Ran(ss_trace, "create_entry_script")) =>
        /\ ~Exists(fs, EntryScript)
        /\ ~Exists(fs, SimpleBuildDir)
        /\ ~Exists(fs, SimpleSpecDir)

\* CompleteTester's PyInstaller run timed out after leaving its directories.
C16_Witness ==
    /\ ss_pc = "done"
    /\ ss_variant = "CompleteTester"
    /\ StartedWith("python -m PyInstaller --onefile", "hang")
    /\ ss_result = "None"
    /\ Ran(ss_trace, "create_entry_script")

\* What the top-level run of the script returned: build, run_full_pipeline,
\* run_full_build or run_validation.
TopLevelResult ==
    CASE script = "build-sidecars"          -> sb_result
      [] script = "build-and-package"       -> pp_result
      [] script = "build-production-bundle" -> pb_result
      [] OTHER                              -> vr_result

ReferenceTarget(h) ==
    CASE h.system = "windows" /\ h.maxsize = MaxSize64 -> "x86_64-pc-windows-msvc"
      [] h.system = "windows" /\ h.maxsize = MaxSize32 -> "i686-pc-windows-msvc"
      [] h.system = "darwin" /\ h.machine = "arm64"    -> "aarch64-apple-darwin"
      [] h.system = "darwin" /\ h.machine = "x86_64"   -> "x86_64-apple-darwin"
      [] h.system = "linux" /\ h.machine = "x86_64"    -> "x86_64-unknown-linux-gnu"
      [] h.system = "linux" /\ h.machine = "aarch64"   -> "aarch64-unknown-linux-gnu"
      [] OTHER -> "unsupported"

\* C18: for every supported (OS, architecture) pair get_platform_info returns
\* the target triple of the reference table, and for every other pair it
\* reports an unsupported platform instead of returning a descriptor.
C18_ReferenceTable ==
    IF ReferenceTarget(host) = "unsupported"
    THEN get_platform_info(host) = Unsupported
    ELSE get_platform_info(host).target = ReferenceTarget(host)

\* C19: on a macOS/arm64 host the resolver yields target aarch64-apple-darwin
\* with an empty extension, and the binary name built from it, also the one
\* build_binary returns, is gytmdl-aarch64-apple-darwin.
C19_MacArm64Name ==
    (host.system = "darwin" /\ host.machine = "arm64") =>
        /\ get_platform_info(host).target = "aarch64-apple-darwin"
        /\ get_platform_info(host).extension = ""
        /\ BinaryName(get_platform_info(host).target, get_platform_info(host).extension)
               = <<"gytmdl-aarch64-apple-darwin">>
        /\ Returned(sb_trace, "build_binary", "true") =>
               sb_binary.name = <<"gytmdl-aarch64-apple-darwin">>

\* build_binary has returned a path on a macOS/arm64 host.
C19_Witness ==
    /\ host.system = "darwin" /\ host.machine = "arm64"
    /\ Returned(sb_trace, "build_binary", "true")
    /\ Exists(fs, sb_binary)

\* The digest of bytes absorbed in one update.
DigestOf(bytes) == hexdigest(sha256_update(HashInit, bytes))

\* C20: two runs of the manifest writer on the same bytes write the same
\* sha256 and size_bytes; the checksum is the digest of the bytes alone,
\* whatever the chunks they were read in and whatever manifest was there
\* before; and the manifest on disk is the last one written, with the keys of
\* create_manifest and no key of an earlier manifest.
C20_ManifestRewrite ==
    /\ \A i, j \in DOMAIN mw_written :
           mw_written[i].bytes = mw_written[j].bytes =>
               /\ mw_written[i].manifest["sha256"] = mw_written[j].manifest["sha256"]
               /\ mw_written[i].manifest["size_bytes"] = mw_written[j].manifest["size_bytes"]
    /\ \A i \in DOMAIN mw_written :
           /\ mw_written[i].manifest["sha256"] = DigestOf(mw_written[i].bytes)
           /\ mw_written[i].manifest["size_bytes"] = Len(mw_written[i].bytes)
    /\ mw_written # <<>> =>
           /\ mw_manifest = mw_written[Len(mw_written)].manifest
           /\ DOMAIN mw_manifest = ManifestKeys

\* The writer ran twice on an unchanged binary longer than one chunk, over a
\* manifest that was already there, at two different times.
C20_Witness ==
    /\ Len(mw_written) = MaxRuns
    /\ mw_written[1].bytes = mw_written[Len(mw_written)].bytes
    /\ Len(mw_bytes) > ChunkSize
    /\ mw_written[1].manifest["build_timestamp"]
           # mw_written[Len(mw_written)].manifest["build_timestamp"]

\* The steps of a trace, in order.
StepsOf(trace) == [i \in DOMAIN trace |-> trace[i].step]

\* Every step of the trace returned a true value.
AllReturnedTrue(trace) == \A i \in DOMAIN trace : trace[i].ret = "true"

\* The check list, the trace and the result of the runner that was started.
RunnerChecks ==
    CASE script = "validate-release-pipeline" -> VRChecks
      [] script = "test-isolation"            -> ITTests
      [] OTHER                                -> PTTests

RunnerTrace == IF script = "validate-release-pipeline" THEN vr_trace ELSE tests_trace

RunnerResult == IF script = "validate-release-pipeline" THEN vr_result ELSE tests_result

RunnerReturned == IF script = "validate-release-pipeline" THEN vr_pc = "done" ELSE tests_pc = "done"

\* C21: each of the three runners runs its checks in the order of its list,
\* going on after a check that failed or raised; a run that has returned
\* ran every check, and returned success exactly when every check returned a
\* true value (none returned false, none raised); run_test records one tuple
\* per test, failed exactly when the test did not return a true value.
C21_EveryCheckRuns ==
    /\ \A i \in DOMAIN RunnerTrace : RunnerTrace[i].step = RunnerChecks[i]
    /\ RunnerReturned =>
           /\ StepsOf(RunnerTrace) = RunnerChecks
           /\ RunnerResult = "true" <=> AllReturnedTrue(RunnerTrace)
    /\ script = "test-packaging" =>
           /\ Len(test_results) = Len(tests_trace)
           /\ \A i \in DOMAIN test_results :
                  /\ test_results[i].label = tests_trace[i].step
                  /\ test_results[i].passed <=> tests_trace[i].ret = "true"

\* The validator went on after a check that raised and one that failed, and
\* returned failure after its last check passed.
C21_Witness ==
    /\ script = "validate-release-pipeline"
    /\ vr_pc = "done"
    /\ vr_result = "false"
    /\ Returned(vr_trace, "check_workflow_files", "raised")
    /\ Returned(vr_trace, "check_project_structure", "false")
    /\ Returned(vr_trace, "check_tauri_configuration", "true")

\* The project with every platform section in place.
WithAllSections(env) ==
    [env EXCEPT !.sections = IF script = "test-tauri-config"
                             THEN {"windows", "macOS", "linux"}
                             ELSE {"windows", "macos", "linux"}]

\* What the script would have returned had no platform section been missing.
ResultWithAllSections ==
    IF script = "test-tauri-config"
    THEN test_tauri_config(WithAllSections(tests_env)).ret
    ELSE validate_production_build(
             WithAllSections(tests_env),
             [d \in {VPDependencies[i] : i \in DOMAIN VPDependencies} |->
                 (CHOOSE c \in {log[k] : k \in DOMAIN log} : c.cmd = d).outcome]).ret

\* C22: in test_tauri_config and in validate_production_build a missing
\* platform section is printed as a warning and nothing more: the script
\* returns what it returns with every section present, and no entry of
\* validation_results is about a platform section.
C22_MissingSectionOnlyWarns ==
    (script \in {"test-tauri-config", "validate-production-build"} /\ tests_pc = "done") =>
        /\ tests_result = ResultWithAllSections
        /\ \A k \in DOMAIN test_results : test_results[k].text \notin {"windows", "macos", "linux"}

\* validate_production_build returned success after warning about two missing
\* sections.
C22_WitnessValidate ==
    /\ script = "validate-production-build"
    /\ tests_pc = "done"
    /\ tests_result = "true"
    /\ Len(tests_trace) = 2

\* test_tauri_config returned success after warning about a missing section.
C22_Witness ==
    /\ script = "test-tauri-config"
    /\ tests_pc = "done"
    /\ tests_result = "true"
    /\ tests_trace # <<>>

\* The commands of the signing stage.
SigningCmds ==
    {"signtool sign", "codesign --sign", "ditto -c -k", "xcrun notarytool submit",
     "xcrun stapler staple"}

\* C23: with code_signing absent or its enabled flag false (the default
\* configuration included), or on Linux, sign_binaries returns success and no
\* signing, notarization or staple command is ever started.
C23_NoSigningWhenDisabled ==
    (config.signing # "enabled" \/ PackagingPipeline_get_platform_info(host).os = "linux") =>
        /\ \A k \in DOMAIN log : log[k].cmd \notin SigningCmds
        /\ \A i \in DOMAIN pp_calls :
               pp_calls[i].step = "Sign binaries" => pp_calls[i].ret = "true"

\* sign_binaries ran on Windows under the default configuration, after a
\* Tauri build that left the executable.
C23_Witness ==
    /\ config = DefaultConfig
    /\ PackagingPipeline_get_platform_info(host).os = "windows"
    /\ Returned(pp_calls, "Sign binaries", "true")
    /\ \A k \in DOMAIN log : log[k].cmd \notin SigningCmds

\* The probe of check_dependencies for a signing tool, and the command of the
\* signing stage that runs the same executable.
SigningProbes == {"signtool", "codesign --version"}

SigningToolCmds == {"signtool sign", "codesign --sign"}

\* C24: once check_dependencies has found the platform's signing tool
\* missing, the signing stage does not start that tool, and it does not fail
\* or raise.
C24_MissingSigningToolSkipsSigning ==
    (\E k \in DOMAIN log : log[k].cmd \in SigningProbes /\ log[k].outcome = "notfound") =>
        /\ \A k \in DOMAIN log : log[k].cmd \notin SigningToolCmds
        /\ \A i \in DOMAIN pp_calls :
               pp_calls[i].step = "Sign binaries" => pp_calls[i].ret = "true"

\* C25: a run whose signing stage passed returns success whatever number of
\* installers the installer stage found, none included, and checksums.txt is
\* written exactly when at least one installer was copied to the dist
\* directory.
C25_InstallersNeverFailTheRun ==
    (pp_pc = "done" /\ Returned(pp_calls, "Sign binaries", "true")) =>
        /\ pp_result = "true"
        /\ Ran(pp_calls, "Create installers")
        /\ pp_checksums.written <=> pp_installers # <<>>
        /\ \A k \in DOMAIN pp_installers :
               Exists(fs, pp_installers[k]) /\ pp_installers[k].dir = DistDir

\* The run returned success without an installer and without checksums.txt.
C25_Witness ==
    /\ pp_pc = "done"
    /\ Returned(pp_calls, "Sign binaries", "true")
    /\ pp_installers = <<>>
    /\ pp_result = "true"
    /\ ~pp_checksums.written

\* C26: when the build-sidecars.py child of build_sidecar_for_current_platform
\* exits 0, the binary it built is at the path the caller checks,
\* <sidecars_dir>/gytmdl-<target><ext>, and the stage succeeds.
C26_SidecarFoundWhereBuilt ==
    LET info == ProductionBundleBuilder_get_platform_info(host) IN
    \A i \in DOMAIN pb_calls :
        (pb_calls[i].step = "Build sidecar for current platform" /\ sb_result = "true") =>
            /\ sb_binary = SidecarPath(info.target, info.extension)
            /\ pb_calls[i].ret = "true"

\* C27: the manifest create_manifest has written for a binary is beside it
\* under the name <binary_name>.json, the name the mock generators write and
\* generate_build_report and validate_production_build read.
C27_ManifestWhereReadersLook ==
    Returned(sb_trace, "create_manifest", "true") =>
        /\ Exists(fs, PathOf(sb_binary.dir, AppendJson(sb_binary.name)))
        /\ WithSuffixJson(sb_binary.name) = AppendJson(sb_binary.name)

\* C28: on every host the resolvers of build-sidecars.py,
\* build-and-package.py, build-simple-sidecar.py and create-mock-gytmdl.py
\* give the same target, hence the same sidecar binary name.
C28_ResolversAgree ==
    LET sb == get_platform_info(host)
        pp == PackagingPipeline_get_platform_info(host)
        ss == SimpleSidecar_get_platform_info(host)
    IN  /\ sb.target = pp.target
        /\ sb.target = ss.target
        /\ BinaryName(sb.target, sb.extension) = BinaryName(pp.target, pp.extension)
        /\ BinaryName(sb.target, sb.extension) = BinaryName(ss.target, ss.extension)
        /\ BinaryName(sb.target, sb.extension) = create_mock_binary_name(host)

\* C29: when run_validation has returned, it returned True exactly when no
\* recorded (label, item, passed) tuple has passed = False, that is when the
\* summary's failed_checks is 0.
C29_SuccessIffNoFailedTuple ==
    vr_pc = "done" =>
        ((vr_result = "true") <=> (failed_checks(vr_results) = 0))

\* C30: after run_all_tests with cleanup, every GUI configuration, cache and
\* data directory that was there before the run, and every file in it, is
\* still there with the content it had: the cleanup removes only what the run
\* created.
C30_CleanupSparesExistingDirs ==
    (script = "test-isolation" /\ tests_pc \in {"report", "done"} /\ tests_env.cleanup) =>
        \A p \in DOMAIN tests_env.before :
            Exists(fs, p) /\ fs[p] = tests_env.before[p]

=============================================================================
